---- MODULE Spec2Model ----
(***************************************************************************)
(* State-machine model of the coordination core of agent-dev:              *)
(*   - ResourcePool            (src/lib/core/ResourcePool.ts)              *)
(*   - DIContainer             (core/DIContainer.ts)                       *)
(*   - AgentCapabilityRegistry / CapabilityExecutor                        *)
(*                             (src/lib/agent/core/AgentCapability.ts)     *)
(*   - EnhancedExecutionPipeline                                           *)
(*                             (src/lib/runtime/EnhancedExecutionPipeline) *)
(*   - StreamEventBus          (src/lib/runtime/EnhancedExecutionPipeline) *)
(* The runtime is single-threaded: every action below is one synchronous   *)
(* segment of a handler, from one suspension point (await) to the next.    *)
(***************************************************************************)
EXTENDS Integers, Sequences, FiniteSets, TLC

\* ------------------------------------------------------------------ bounds
\* largest maxSize a pool is constructed with
MaxPoolSize == 2
\* number of acquire() calls made on the pool
MaxAcq == 2
\* number of acquire() calls made on the pool while the sweep runs
MaxSweepAcq == 1
\* number of cleanup() calls made on the pool
MaxCleanups == 2
\* number of acquire() calls made on a pool that is cleaned up
MaxCleanupAcq == 2
\* number of factory() invocations
MaxRes == 2
\* longest list of declared dependencies of a registration
MaxDeps == 2
\* number of resolve() calls made from outside the container
MaxResolve == 2
\* number of capabilities in the registry
MaxCaps == 2
\* number of execute() calls made on the executor
MaxExec == 1
\* number of executeWithMultiple() calls made on the executor
MaxMulti == 1
\* number of tasks passed to the agent's queueTask() and executeTask()
MaxTasks == 3
\* number of startSession() calls made on the agent
MaxStarts == 3
\* number of startSession() calls made on an agent whose queue is in use
MaxQueueStarts == 2
\* number of executeTask() calls made on the agent from outside
MaxDirect == 2
\* longest stage list buildExecutionOrder is applied to on its own
MaxStages == 4
\* longest stage list of a pipeline that is initialized and executed
MaxRunStages == 3
\* longest stage list of a pipeline whose execution is cancelled
MaxCancelStages == 2
\* number of cancelExecution() calls
MaxCancels == 2
\* number of acquire() calls made on a pool whose acquire() calls must settle
MaxLiveAcq == 1
\* number of emitStreamEvent() calls when events are dropped
MaxDropEmits == 2
\* largest bufferSize an event bus is constructed with
MaxBufferSize == 2
\* largest number of middlewares added to an event bus
MaxMiddlewares == 1
\* number of emitStreamEvent() calls made on the event bus
MaxEmits == 3
\* number of emitStreamEvent() calls made while waitFor() calls are pending
MaxWaitEmits == 2
\* number of waitFor() calls made on the event bus
MaxWaiters == 1

VARIABLES
  \* ---- ResourcePool
  maxSize,        \* constructor argument
  validator,      \* TRUE iff a validator was passed to the constructor
  initialized,    \* BaseComponent._isInitialized
  cleanupInterval,  \* TRUE iff the interval timer of the sweep is armed
  cleanups,       \* cleanup calls: [pc, outcome]
  available,      \* T[]  (sequence of resource ids)
  inUse,          \* Set<T>
  waitingQueue,   \* sequence of tickets; a ticket is the id of its acquire call
  acq,            \* acquire calls: [pc, res, err, timer]
  rel,            \* release calls suspended in validator/destroyer: [res, ticket, pc]
  creator,        \* creator[r] = the acquire call whose factory() returned r
  destroyed,      \* resources the destroyer has been invoked on
  holders,        \* holders[r] = number of callers that got r from acquire()
                  \* and have not released it yet
  sweep,          \* the cleanupInvalidResources call in flight
  \* ---- observation of the pool (history, not read by the code)
  queued,         \* tickets in the order they were pushed on waitingQueue
  served,         \* tickets in the order their promise was resolved
  handed,         \* handed[t] = resource a release() took for ticket t (0: none)
  oldestAt,       \* oldestAt[t] = oldest waiting ticket when that release() ran
  \* ---- DIContainer
  services,         \* Map<ServiceToken, ServiceRegistration>
  resolutionStack,  \* Set<ServiceToken>
  rcalls,           \* resolve() calls made from outside: [status, target, frames]
  instances,        \* number of objects the factories have returned so far
  factoryCalls,     \* factoryCalls[t] = number of invocations of t's factory
  \* ---- AgentCapabilityRegistry / CapabilityExecutor
  capabilityInstances,  \* Map<string, AgentCapability> in insertion order:
                        \* [priority, enabled, types]
  xcalls,               \* execute() calls: [pc, invoked, thrown, caught,
                        \*                   events, handled, outcome, resp]
  mcalls,               \* executeWithMultiple() calls: [pc, mode, aggregate,
                        \*   selected, invoked, settled, results, outcome, ret]
  \* ---- EnhancedExecutionPipeline
  stages,             \* config.stages: sequence of [id, dependencies, optional]
  parallelExecution,  \* config.settings.parallelExecution
  built,              \* what buildExecutionOrder returned or threw
  pinit,              \* initialize(): "none", "ok" or "rejected"
  pexec,              \* the execution made by execute(): [status, pc, wave, pos,
                      \*   stage, settledAt, inflightAt, stageResults,
                      \*   currentStage, error, progress, threw, outcome,
                      \*   endTime, cancelled, cancelCalls]
  \* ---- StreamEventBus
  bufferSize,      \* constructor option
  middlewares,     \* middlewares.length
  eventHandlers,   \* number of handlers subscribed (for every type)
  eventCounter,    \* number of ids generated
  eventBuffer,     \* StreamEvent[]: sequence of [id, type, data]
  ecalls,          \* emitStreamEvent calls: [pc, event, valid, mw, at, ret]
  waits,           \* waitFor calls: [pc, type, filter, timer, listening,
                   \*   outcome, event, settles, firstMatch]
  \* ---- observation of the bus (history, not read by the code)
  delivered,       \* ids of the events passed to the '*' listeners, in order
  replayed,        \* ids of the events the last replay() passed to its listener
  \* ---- ComposableAgent
  currentSession,  \* index into sessions of this.currentSession, 0 for undefined
  sessions,        \* the AgentSession objects created so far:
                   \*   [endTime, ended, taskHistory]
  taskQueue,       \* AgentTask[]: sequence of task ids
  isProcessing,    \* the flag of processQueue
  scalls,          \* startSession() calls: [pc, ret]
  tasks,           \* the tasks and their executeTask() calls: [pc, via,
                   \*   priority, session, handed, dispatched, events,
                   \*   outcome, err]
  drains           \* the processQueue() loops suspended in their await: the
                   \* id of the task each is awaiting

poolVars == <<maxSize, validator, initialized, cleanupInterval, cleanups, available, inUse, waitingQueue,
              acq, rel, creator, destroyed, holders, sweep, queued, served,
              handed, oldestAt>>

diVars == <<services, resolutionStack, rcalls, instances, factoryCalls>>

capVars == <<capabilityInstances, xcalls, mcalls>>

pipeVars == <<stages, parallelExecution, built, pinit, pexec>>

busVars == <<bufferSize, middlewares, eventHandlers, eventCounter, eventBuffer,
             ecalls, waits, delivered, replayed>>

agentVars == <<currentSession, sessions, taskQueue, isProcessing, scalls, tasks,
               drains>>

vars == <<poolVars, diVars, capVars, pipeVars, busVars, agentVars>>

\* what the steps of one component leave alone
poolOthers == <<diVars, capVars, pipeVars, busVars, agentVars>>
diOthers == <<poolVars, capVars, pipeVars, busVars, agentVars>>
capOthers == <<poolVars, diVars, pipeVars, busVars, agentVars>>
pipeOthers == <<poolVars, diVars, capVars, busVars, agentVars>>
busOthers == <<poolVars, diVars, capVars, pipeVars, agentVars>>
agentOthers == <<poolVars, diVars, capVars, pipeVars, busVars>>

\* ------------------------------------------------------------ helpers
Range(s) == {s[i] : i \in 1..Len(s)}

\* Array.prototype.splice(index, 1)
RemoveAt(s, k) == [i \in 1..(Len(s) - 1) |-> IF i < k THEN s[i] ELSE s[i + 1]]

\* Array.prototype.indexOf / findIndex: first index holding x, 0 when absent
IndexOf(s, x) ==
  IF x \in Range(s) THEN CHOOSE i \in 1..Len(s) : s[i] = x /\ \A j \in 1..(i - 1) : s[j] # x
  ELSE 0

Calls == 1..MaxAcq
Resources == 1..MaxRes

IdleCall == [pc |-> "idle", res |-> 0, err |-> "none", timer |-> FALSE]
IdleCleanup == [pc |-> "idle", outcome |-> "pending", started |-> {}]
IdleSweep == [pc |-> "idle", idx |-> 0, cur |-> 0, invalid |-> <<>>, pos |-> 0]

\* resources some caller got from acquire() and has not yet released
Held == {r \in Resources : holders[r] > 0}

\* a caller receives resource r from acquire()
Give(hs, r) == [hs EXCEPT ![r] = @ + 1]

\* ------------------------------------------------------------ ResourcePool
\* A pool after k <= maxSize acquire() calls have returned k fresh resources
\* to callers that still hold them (k = 0: a pool just constructed).
PoolInit ==
  /\ maxSize \in 1..MaxPoolSize
  /\ validator \in BOOLEAN
  /\ \E k \in 0..maxSize :
       /\ inUse = 1..k
       /\ creator = [r \in 1..k |-> 0]
       /\ holders = [r \in Resources |-> IF r <= k THEN 1 ELSE 0]
       /\ initialized = (k > 0)
       /\ cleanupInterval = (k > 0)
  /\ cleanups = [k \in 1..MaxCleanups |-> IdleCleanup]
  /\ available = <<>>
  /\ waitingQueue = <<>>
  /\ acq = [c \in Calls |-> IdleCall]
  /\ rel = {}
  /\ destroyed = {}
  /\ sweep = IdleSweep
  /\ queued = <<>>
  /\ served = <<>>
  /\ handed = [c \in Calls |-> 0]
  /\ oldestAt = [c \in Calls |-> 0]

\* ResourcePool.acquire line 104: room for a new resource
UnderLimit == Cardinality(inUse) < maxSize

\* ResourcePool.acquire line 84: this.available.pop()
PopAvailable == available[Len(available)]

\* a release() that serves the newest ticket (pop() for shift())
NextWaiterNewest == waitingQueue[Len(waitingQueue)]

\* ResourcePool.release lines 143-144: this.waitingQueue.shift()
NextWaiter == Head(waitingQueue)

\* a release() without its guard
ReleaseNeverIgnored(r) == FALSE

\* ResourcePool.release line 135: the guard of release()
ReleaseIgnored(r) == r \notin inUse

\* the ticket that has waited longest, by the order of arrival
OldestWaiting ==
  LET ix == {i \in 1..Len(queued) : queued[i] \in Range(waitingQueue)}
  IN IF ix = {} THEN 0 ELSE queued[CHOOSE i \in ix : \A j \in ix : i <= j]

\* factory() invocations started so far
Creations == Len(creator) + Cardinality({d \in Calls : acq[d].pc = "creating"})

\* acquire(): the call itself; its body runs after `await ensureInitialized()`
AcquireCall(c) ==
  /\ UNCHANGED poolOthers
  /\ acq[c].pc = "idle"
  /\ \A d \in Calls : d < c => acq[d].pc # "idle"
  /\ acq' = [acq EXCEPT ![c].pc = "start"]
  /\ initialized' = TRUE
  /\ cleanupInterval' = (cleanupInterval \/ ~initialized)
  /\ UNCHANGED <<maxSize, validator, cleanups, available, inUse, waitingQueue, rel, creator,
                 destroyed, holders, sweep, queued, served, handed, oldestAt>>

\* acquire() lines 82-128, up to its next suspension point
AcquireBody(c) ==
  /\ UNCHANGED poolOthers
  /\ acq[c].pc = "start"
  /\ IF Len(available) > 0
     THEN /\ available' = SubSeq(available, 1, Len(available) - 1)
          /\ IF validator
             THEN /\ acq' = [acq EXCEPT ![c].pc = "validating", ![c].res = PopAvailable]
                  /\ UNCHANGED <<inUse, holders>>
             ELSE /\ inUse' = inUse \cup {PopAvailable}
                  /\ acq' = [acq EXCEPT ![c].pc = "resolved", ![c].res = PopAvailable]
                  /\ holders' = Give(holders, PopAvailable)
          /\ UNCHANGED <<waitingQueue, queued>>
     ELSE IF UnderLimit
     THEN /\ Creations < MaxRes
          /\ acq' = [acq EXCEPT ![c].pc = "creating"]
          /\ UNCHANGED <<available, inUse, holders, waitingQueue, queued>>
     ELSE /\ waitingQueue' = Append(waitingQueue, c)
          /\ queued' = Append(queued, c)
          /\ acq' = [acq EXCEPT ![c].pc = "waiting", ![c].timer = TRUE]
          /\ UNCHANGED <<available, inUse, holders>>
  /\ UNCHANGED <<maxSize, validator, cleanupInterval, cleanups, initialized, rel, creator, destroyed, sweep,
                 served, handed, oldestAt>>

\* acquire() lines 88-100: the validator settled (a rejection counts as false)
AcquireValidated(c, ok) ==
  /\ UNCHANGED poolOthers
  /\ acq[c].pc = "validating"
  /\ IF ok
     THEN /\ inUse' = inUse \cup {acq[c].res}
          /\ acq' = [acq EXCEPT ![c].pc = "resolved"]
          /\ holders' = Give(holders, acq[c].res)
          /\ UNCHANGED destroyed
     ELSE /\ destroyed' = destroyed \cup {acq[c].res}
          /\ acq' = [acq EXCEPT ![c].pc = "destroying"]
          /\ UNCHANGED <<inUse, holders>>
  /\ UNCHANGED <<maxSize, validator, cleanupInterval, cleanups, initialized, available, waitingQueue, rel,
                 creator, sweep, queued, served, handed, oldestAt>>

\* acquire() lines 91-94: the destroyer settled, `return this.acquire(timeoutMs)`
AcquireDestroyed(c) ==
  /\ UNCHANGED poolOthers
  /\ acq[c].pc = "destroying"
  /\ acq' = [acq EXCEPT ![c].pc = "start", ![c].res = 0]
  /\ UNCHANGED <<maxSize, validator, cleanupInterval, cleanups, initialized, available, inUse, waitingQueue,
                 rel, creator, destroyed, holders, sweep, queued, served, handed,
                 oldestAt>>

\* acquire() lines 105-113: the factory settled
AcquireCreated(c, ok) ==
  /\ UNCHANGED poolOthers
  /\ acq[c].pc = "creating"
  /\ IF ok
     THEN /\ creator' = Append(creator, c)
          /\ inUse' = inUse \cup {Len(creator) + 1}
          /\ acq' = [acq EXCEPT ![c].pc = "resolved", ![c].res = Len(creator) + 1]
          /\ holders' = Give(holders, Len(creator) + 1)
     ELSE /\ acq' = [acq EXCEPT ![c].pc = "rejected", ![c].err = "creation"]
          /\ UNCHANGED <<creator, inUse, holders>>
  /\ UNCHANGED <<maxSize, validator, cleanupInterval, cleanups, initialized, available, waitingQueue, rel,
                 destroyed, sweep, queued, served, handed, oldestAt>>

\* a timer callback that leaves its ticket in the queue
ExpiredKept(c) == waitingQueue

\* acquire() lines 119-122: the timer callback takes its ticket off the queue
Expired(c) ==
  IF IndexOf(waitingQueue, c) > 0
  THEN RemoveAt(waitingQueue, IndexOf(waitingQueue, c))
  ELSE waitingQueue

\* acquire() lines 118-124: the ticket's timer fires
AcquireTimeout(c) ==
  /\ UNCHANGED poolOthers
  /\ acq[c].timer
  /\ waitingQueue' = Expired(c)
  /\ acq' = [acq EXCEPT ![c].timer = FALSE,
                        ![c].pc = IF acq[c].pc = "waiting" THEN "rejected" ELSE @,
                        ![c].err = IF acq[c].pc = "waiting" THEN "timeout" ELSE @]
  /\ UNCHANGED <<maxSize, validator, cleanupInterval, cleanups, initialized, available, inUse, rel, creator,
                 destroyed, holders, sweep, queued, served, handed, oldestAt>>

\* a resolve() that is never called
ResolveNever(a, t, r) == a

\* a promise settles once: resolve() or reject() after a settlement is a no-op
Resolve(a, t, r) ==
  IF a[t].pc = "waiting" THEN [a EXCEPT ![t].pc = "resolved", ![t].res = r] ELSE a

\* a reject() that is never called
RejectNever(a, t, e) == a

Reject(a, t, e) ==
  IF a[t].pc = "waiting" THEN [a EXCEPT ![t].pc = "rejected", ![t].err = e] ELSE a

\* the caller of ticket t receives r when resolve(r) settles its promise
GiveTicket(hs, a, t, r) == IF a[t].pc = "waiting" THEN Give(hs, r) ELSE hs

\* release(resource) lines 134-170, up to its next suspension point;
\* hs is the callers' holdings when release() is entered
ReleaseCode(r, hs) ==
  /\ UNCHANGED poolOthers
  /\ IF ReleaseIgnored(r)
     THEN /\ holders' = hs
          /\ UNCHANGED <<available, inUse, waitingQueue, acq, rel, served, handed,
                         oldestAt>>
     ELSE IF Len(waitingQueue) > 0
     THEN /\ waitingQueue' = Tail(waitingQueue)
          /\ handed' = [handed EXCEPT ![NextWaiter] = r]
          /\ oldestAt' = [oldestAt EXCEPT ![NextWaiter] = OldestWaiting]
          /\ IF validator
             THEN /\ inUse' = inUse \ {r}
                  /\ rel' = rel \cup {[res |-> r, ticket |-> NextWaiter,
                                       pc |-> "validating"]}
                  /\ acq' = [acq EXCEPT ![NextWaiter].timer = FALSE]
                  /\ holders' = hs
                  /\ UNCHANGED served
             ELSE /\ inUse' = (inUse \ {r}) \cup {r}
                  /\ acq' = Resolve([acq EXCEPT ![NextWaiter].timer = FALSE],
                                    NextWaiter, r)
                  /\ holders' = GiveTicket(hs, acq, NextWaiter, r)
                  /\ served' = Append(served, NextWaiter)
                  /\ UNCHANGED rel
          /\ UNCHANGED available
     ELSE /\ inUse' = inUse \ {r}
          /\ available' = Append(available, r)
          /\ holders' = hs
          /\ UNCHANGED <<waitingQueue, acq, rel, served, handed, oldestAt>>
  /\ UNCHANGED <<maxSize, validator, cleanupInterval, cleanups, initialized, creator, destroyed, sweep, queued>>

\* a caller releases a resource it got from acquire()
ReleaseHeld(r) ==
  /\ holders[r] > 0
  /\ ReleaseCode(r, [holders EXCEPT ![r] = @ - 1])

\* release() of a resource no caller holds (a second release, for example)
ReleaseStale(r) ==
  /\ r \in 1..Len(creator)
  /\ holders[r] = 0
  /\ ReleaseCode(r, holders)

\* release() lines 151-163: the validator settled
ReleaseValidated(h, ok) ==
  /\ UNCHANGED poolOthers
  /\ h \in rel
  /\ h.pc = "validating"
  /\ IF ok
     THEN /\ inUse' = inUse \cup {h.res}
          /\ acq' = Resolve(acq, h.ticket, h.res)
          /\ holders' = GiveTicket(holders, acq, h.ticket, h.res)
          /\ served' = Append(served, h.ticket)
          /\ rel' = rel \ {h}
          /\ UNCHANGED destroyed
     ELSE /\ destroyed' = destroyed \cup {h.res}
          /\ rel' = (rel \ {h}) \cup {[h EXCEPT !.pc = "destroying"]}
          /\ UNCHANGED <<inUse, acq, holders, served>>
  /\ UNCHANGED <<maxSize, validator, cleanupInterval, cleanups, initialized, available, waitingQueue, creator,
                 sweep, queued, handed, oldestAt>>

\* release() lines 153-157: the destroyer settled, the ticket is rejected
ReleaseDestroyed(h) ==
  /\ UNCHANGED poolOthers
  /\ h \in rel
  /\ h.pc = "destroying"
  /\ acq' = Reject(acq, h.ticket, "invalid")
  /\ rel' = rel \ {h}
  /\ UNCHANGED <<maxSize, validator, cleanupInterval, cleanups, initialized, available, inUse, waitingQueue,
                 creator, destroyed, holders, sweep, queued, served, handed, oldestAt>>

\* a sweep that destroys every resource of invalidResources, wherever it is
SweepRemoveAny(inv, pos) ==
  IF pos > Len(inv)
  THEN /\ sweep' = IdleSweep
       /\ UNCHANGED <<available, destroyed>>
  ELSE /\ available' = SelectSeq(available, LAMBDA r : r # inv[pos])
       /\ destroyed' = destroyed \cup {inv[pos]}
       /\ sweep' = [pc |-> "destroying", idx |-> 0, cur |-> inv[pos],
                    invalid |-> inv, pos |-> pos + 1]

\* cleanupInvalidResources() lines 213-221, from entry pos of invalidResources
\* up to the next `await this.destroyer(resource)` or the end of the loop
SweepRemoveFrom(inv, pos) ==
  LET ks == {k \in pos..Len(inv) : IndexOf(available, inv[k]) > 0}
      k == CHOOSE x \in ks : \A y \in ks : x <= y
  IN IF ks = {}
     THEN /\ sweep' = IdleSweep
          /\ UNCHANGED <<available, destroyed>>
     ELSE /\ available' = RemoveAt(available, IndexOf(available, inv[k]))
          /\ destroyed' = destroyed \cup {inv[k]}
          /\ sweep' = [pc |-> "destroying", idx |-> 0, cur |-> inv[k],
                       invalid |-> inv, pos |-> k + 1]

\* cleanupInvalidResources() lines 200-210: the array iterator steps to index
\* idx of the live array this.available and the validator is invoked
SweepScanFrom(idx, inv) ==
  IF idx <= Len(available)
  THEN /\ sweep' = [pc |-> "scan", idx |-> idx, cur |-> available[idx],
                    invalid |-> inv, pos |-> 0]
       /\ UNCHANGED <<available, destroyed>>
  ELSE SweepRemoveFrom(inv, 1)

\* initialize() lines 41-43: the interval timer calls cleanupInvalidResources()
SweepStart ==
  /\ UNCHANGED poolOthers
  /\ cleanupInterval
  /\ validator
  /\ sweep.pc = "idle"
  /\ SweepScanFrom(1, <<>>)
  /\ UNCHANGED <<maxSize, validator, cleanupInterval, cleanups, initialized, inUse, waitingQueue, acq, rel,
                 creator, holders, queued, served, handed, oldestAt>>

\* cleanupInvalidResources() lines 202-209: the validator settled
\* (a rejection is logged and counts as invalid)
SweepValidated(ok) ==
  /\ UNCHANGED poolOthers
  /\ sweep.pc = "scan"
  /\ SweepScanFrom(sweep.idx + 1,
                   IF ok THEN sweep.invalid ELSE Append(sweep.invalid, sweep.cur))
  /\ UNCHANGED <<maxSize, validator, cleanupInterval, cleanups, initialized, inUse, waitingQueue, acq, rel,
                 creator, holders, queued, served, handed, oldestAt>>

\* cleanupInvalidResources() lines 217-219: the destroyer settled
SweepDestroyed ==
  /\ UNCHANGED poolOthers
  /\ sweep.pc = "destroying"
  /\ SweepRemoveFrom(sweep.invalid, sweep.pos)
  /\ UNCHANGED <<maxSize, validator, cleanupInterval, cleanups, initialized, inUse, waitingQueue, acq, rel,
                 creator, holders, queued, served, handed, oldestAt>>

\* the steps of the acquire() calls made and of the release() calls
PoolSteps ==
  \/ \E c \in Calls : AcquireBody(c)
  \/ \E c \in Calls, ok \in BOOLEAN : AcquireValidated(c, ok)
  \/ \E c \in Calls : AcquireDestroyed(c)
  \/ \E c \in Calls, ok \in BOOLEAN : AcquireCreated(c, ok)
  \/ \E c \in Calls : AcquireTimeout(c)
  \/ \E r \in Resources : ReleaseHeld(r)
  \/ \E r \in Resources : ReleaseStale(r)
  \/ \E h \in rel, ok \in BOOLEAN : ReleaseValidated(h, ok)
  \/ \E h \in rel : ReleaseDestroyed(h)

PoolNext ==
  \/ \E c \in Calls : AcquireCall(c)
  \/ PoolSteps

\* a pool nobody uses
PoolIdle ==
  /\ maxSize = 1
  /\ validator = FALSE
  /\ initialized = FALSE
  /\ cleanupInterval = FALSE
  /\ cleanups = <<>>
  /\ available = <<>>
  /\ inUse = {}
  /\ waitingQueue = <<>>
  /\ acq = <<>>
  /\ rel = {}
  /\ creator = <<>>
  /\ destroyed = {}
  /\ holders = <<>>
  /\ sweep = IdleSweep
  /\ queued = <<>>
  /\ served = <<>>
  /\ handed = <<>>
  /\ oldestAt = <<>>

SweepNext ==
  \/ SweepStart
  \/ SweepValidated(TRUE)
  \/ SweepValidated(FALSE)
  \/ SweepDestroyed

PoolSweepNext ==
  \/ \E c \in 1..MaxSweepAcq : AcquireCall(c)
  \/ PoolSteps
  \/ SweepNext

\* cleanup() lines 54-60: every ticket of the queue is rejected
RECURSIVE RejectAll(_, _)
RejectAll(a, q) ==
  IF q = <<>> THEN a
  ELSE RejectAll(Reject([a EXCEPT ![Head(q)].timer = FALSE], Head(q), "cleanup"),
                 Tail(q))

\* cleanup() lines 48-67, up to the await of the destroyers; the destroyer is
\* invoked on every resource of available and inUse
Cleanup(k) ==
  /\ UNCHANGED poolOthers
  /\ cleanups[k].pc = "idle"
  /\ \A j \in 1..(k - 1) : cleanups[j].pc # "idle"
  /\ cleanupInterval' = FALSE
  /\ acq' = RejectAll(acq, waitingQueue)
  /\ waitingQueue' = <<>>
  /\ destroyed' = destroyed \cup Range(available) \cup inUse
  /\ available' = <<>>
  /\ inUse' = {}
  /\ cleanups' = [cleanups EXCEPT ![k].pc = "destroying",
                                  ![k].started = {c \in Calls : acq[c].pc # "idle"}]
  /\ UNCHANGED <<maxSize, validator, initialized, rel, creator, holders, sweep,
                 queued, served, handed, oldestAt>>

\* cleanup() lines 67-73: Promise.all of the destroyers settled; ok is FALSE
\* when some destroyer rejected, which its catch handler logs
CleanupDestroyed(k, ok) ==
  /\ UNCHANGED poolOthers
  /\ cleanups[k].pc = "destroying"
  /\ cleanups' = [cleanups EXCEPT ![k].pc = "done", ![k].outcome = "resolved"]
  /\ UNCHANGED <<maxSize, validator, initialized, cleanupInterval, available, inUse,
                 waitingQueue, acq, rel, creator, destroyed, holders, sweep, queued,
                 served, handed, oldestAt>>

CleanupNext ==
  \/ \E k \in 1..MaxCleanups : Cleanup(k)
  \/ \E k \in 1..MaxCleanups, ok \in BOOLEAN : CleanupDestroyed(k, ok)

PoolCleanupNext ==
  \/ \E c \in 1..MaxCleanupAcq : AcquireCall(c)
  \/ PoolSteps
  \/ CleanupNext


\* acquire and release calls and one cleanup()
PoolLiveNext ==
  \/ \E c \in 1..MaxLiveAcq : AcquireCall(c)
  \/ PoolSteps
  \/ Cleanup(1)
  \/ \E ok \in BOOLEAN : CleanupDestroyed(1, ok)

\* what the pool does on its own: a factory, validator or destroyer settles,
\* the continuation of an await runs, the timer of a ticket fires
PoolSettles ==
  \/ \E c \in 1..MaxLiveAcq : AcquireBody(c)
  \/ \E c \in 1..MaxLiveAcq, ok \in BOOLEAN : AcquireValidated(c, ok)
  \/ \E c \in 1..MaxLiveAcq : AcquireDestroyed(c)
  \/ \E c \in 1..MaxLiveAcq, ok \in BOOLEAN : AcquireCreated(c, ok)
  \/ \E c \in 1..MaxLiveAcq : AcquireTimeout(c)
  \/ \E h \in rel, ok \in BOOLEAN : ReleaseValidated(h, ok)
  \/ \E h \in rel : ReleaseDestroyed(h)

\* as long as one of these steps is pending, one of them is taken
PoolFair == WF_vars(PoolSettles)

\* ------------------------------------------------------------ pool claims

\* C1: for every interleaving of acquire() and release() calls, at every state
\* available.size + inUse.size <= maxSize (hence inUse.size <= maxSize).
C1_PoolBound == Len(available) + Cardinality(inUse) <= maxSize

\* the number of places resource r is in: slots of available, inUse, on its
\* way to a waiter (release() suspended), popped by an acquire() (suspended)
Places(r) ==
  Cardinality({i \in 1..Len(available) : available[i] = r})
  + (IF r \in inUse THEN 1 ELSE 0)
  + Cardinality({h \in rel : h.res = r /\ h.pc = "validating"})
  + Cardinality({c \in Calls : acq[c].pc = "validating" /\ acq[c].res = r})

C2_Exclusive == \A r \in Resources : Places(r) <= 1 /\ holders[r] <= 1

C2_IgnoredRelease ==
  \A r \in Resources :
    (r \notin inUse /\ (ReleaseStale(r) \/ ReleaseHeld(r)))
      => UNCHANGED <<available, inUse, waitingQueue, acq, rel, destroyed, sweep>>

\* C2: at every state reachable by acquire/release/sweep calls each resource is
\* in at most one of available, inUse, in transit; no resource is held by two
\* callers of acquire() at once; and a release() of a resource that is not in
\* inUse changes nothing.
C2_OnePlace == [](C2_Exclusive) /\ [][C2_IgnoredRelease]_vars

\* while a sweep is in flight, an acquire() call holds, alone, a resource it
\* did not create and was not handed by a release(): the resource went through
\* available
C2_Witness ==
  /\ sweep.pc # "idle"
  /\ \E c \in Calls :
       /\ acq[c].pc = "resolved"
       /\ handed[c] = 0
       /\ acq[c].res \in 1..Len(creator)
       /\ creator[acq[c].res] # c
       /\ holders[acq[c].res] = 1

\* a step of the sweep that destroys a resource: the resource failed the
\* sweep's validation, was in available and not in inUse, and has left
\* available
C32_Removal ==
  (sweep' # sweep /\ destroyed' # destroyed)
    => /\ destroyed' = destroyed \cup {sweep'.cur}
       /\ sweep'.cur \in Range(sweep'.invalid)
       /\ sweep'.cur \in Range(available)
       /\ sweep'.cur \notin inUse
       /\ sweep'.cur \notin Range(available')
       /\ inUse' = inUse

\* no destroyed resource is in available or in inUse
C32_NoneDestroyed ==
  /\ destroyed \cap Range(available) = {}
  /\ destroyed \cap inUse = {}

\* C32: the background sweep removes and destroys only resources that failed
\* validation and are in available at the moment of removal; interleaved with
\* in-flight acquire and release calls it never destroys a resource that is
\* in inUse and never leaves a destroyed resource in available.
C32_SweepsAvailable == [](C32_NoneDestroyed) /\ [][C32_Removal]_vars

\* the sweep has destroyed one resource that failed its validation and has
\* passed over another that failed it too: an acquire() had taken that one
\* from available in between
C32_Witness ==
  /\ sweep.pc = "destroying"
  /\ \E r \in Range(sweep.invalid) : r \in inUse /\ r \notin destroyed

\* C3: waiters are served in arrival order: when W1 was queued before W2 and
\* W2 has been resolved with a resource, W1 (unless its promise was rejected)
\* was resolved with a resource before W2.
C3_Fifo ==
  \A i, j \in 1..Len(queued) :
    (i < j /\ queued[j] \in Range(served) /\ acq[queued[i]].pc # "rejected")
      => /\ queued[i] \in Range(served)
         /\ IndexOf(served, queued[i]) < IndexOf(served, queued[j])

\* C4: a release(R) that finds tickets waiting takes the oldest of them; R is
\* not in available while the release is in flight, and unless R is found
\* invalid that ticket's acquire() resolves with R itself, no factory() call
\* having been made for it.
C4_HandOff ==
  \A t \in Calls :
    handed[t] # 0 =>
      /\ oldestAt[t] = t
      /\ \A r \in 1..Len(creator) : creator[r] # t
      /\ \/ /\ acq[t].pc = "waiting"
            /\ \E h \in rel : h.ticket = t /\ h.res = handed[t]
            /\ handed[t] \notin Range(available)
            /\ handed[t] \notin inUse
         \/ /\ acq[t].pc = "resolved"
            /\ acq[t].res = handed[t]
         \/ /\ acq[t].pc = "rejected"
            /\ acq[t].err = "invalid"
            /\ handed[t] \in destroyed

\* two tickets were waiting, a release() has handed its resource to the first
\* after re-validating it
C4_Witness ==
  /\ validator
  /\ Len(queued) = 2
  /\ acq[queued[1]].pc = "resolved"
  /\ acq[queued[1]].res = handed[queued[1]]
  /\ acq[queued[2]].pc = "waiting"

\* the timer of a queued acquire() fires: the ticket is waiting in the queue,
\* is removed from it and its promise is rejected with the timeout error
C16_TimerFires ==
  \A c \in Calls :
    AcquireTimeout(c) =>
      /\ acq[c].pc = "waiting"
      /\ c \in Range(waitingQueue)
      /\ c \notin Range(waitingQueue')
      /\ acq'[c].pc = "rejected"
      /\ acq'[c].err = "timeout"

\* a ticket that timed out is in no queue and no release() took it or served
\* it; a ticket a release() took has no timer and is not rejected by it
C16_Settled ==
  \A c \in Calls :
    /\ acq[c].err = "timeout" =>
         /\ acq[c].pc = "rejected"
         /\ handed[c] = 0
         /\ c \notin Range(served)
         /\ c \notin Range(waitingQueue)
    /\ handed[c] # 0 => ~acq[c].timer
    /\ c \in Range(served) => acq[c].pc = "resolved"

\* C16: an acquire() that is queued and whose timer fires before it is served
\* is removed from the wait queue and rejects with a timeout error; a ticket
\* that has timed out is never later handed a resource by release(), and a
\* ticket that has been served is never also rejected by its timer.
C16_Timeout == [](C16_Settled) /\ [][C16_TimerFires]_vars

\* the first of two queued tickets timed out and a release() then served the
\* second
C16_Witness ==
  \E c, d \in Calls :
    /\ acq[c].err = "timeout"
    /\ d \in Range(served)
    /\ IndexOf(queued, c) > 0
    /\ IndexOf(queued, c) < IndexOf(queued, d)

\* the validator of a release() that took a ticket reports the resource
\* invalid: the destroyer is invoked on it
C17_Destroyed ==
  \A h \in rel : ReleaseValidated(h, FALSE) => h.res \in destroyed'

\* the destroyer of that release() settled: its ticket, and no other, is
\* rejected; the queue is left as it is and the resource is in no set
C17_Rejected ==
  \A h \in rel :
    ReleaseDestroyed(h) =>
      /\ acq'[h.ticket].pc = "rejected"
      /\ acq'[h.ticket].err = "invalid"
      /\ \A c \in Calls \ {h.ticket} : acq'[c] = acq[c]
      /\ waitingQueue' = waitingQueue
      /\ h.res \notin inUse'
      /\ h.res \notin Range(available')

\* the ticket a release() takes is the oldest one waiting; while the release
\* is in flight and after it rejected the ticket the resource is in neither
\* available nor inUse; the queue keeps the order of arrival
C17_NotReused ==
  /\ \A h \in rel :
       /\ h.res \notin inUse
       /\ h.res \notin Range(available)
       /\ oldestAt[h.ticket] = h.ticket
  /\ \A t \in Calls :
       acq[t].err = "invalid" =>
         /\ handed[t] \in destroyed
         /\ handed[t] \notin inUse
         /\ handed[t] \notin Range(available)
         /\ holders[handed[t]] = 0
  /\ \A i, j \in 1..Len(waitingQueue) :
       i < j => IndexOf(queued, waitingQueue[i]) < IndexOf(queued, waitingQueue[j])

\* C17: when release(R) finds a waiting ticket and R fails re-validation, R is
\* destroyed, exactly the oldest ticket is rejected, R is given to no other
\* waiter and is in neither available nor inUse afterwards, and the other
\* tickets remain queued in their original order.
C17_InvalidOnRelease ==
  [](C17_NotReused) /\ [][C17_Destroyed /\ C17_Rejected]_vars

\* a release() rejected the oldest ticket because its resource was invalid,
\* and the ticket queued after it is still waiting
C17_Witness ==
  \E t \in Calls :
    /\ acq[t].err = "invalid"
    /\ handed[t] \in destroyed
    /\ waitingQueue # <<>>
    /\ IndexOf(queued, t) < IndexOf(queued, Head(waitingQueue))

\* cleanup() is called: every waiting ticket is rejected with the cleanup
\* error, the destroyer is invoked on every resource of available and inUse,
\* and the three collections are emptied; a call that finds them empty
\* changes nothing
C18_Clears ==
  \A k \in DOMAIN cleanups :
    Cleanup(k) =>
      /\ \A t \in Range(waitingQueue) :
           acq'[t].pc = "rejected" /\ acq'[t].err = "cleanup"
      /\ Range(available) \cup inUse \subseteq destroyed'
      /\ available' = <<>> /\ inUse' = {} /\ waitingQueue' = <<>>
      /\ (available = <<>> /\ inUse = {} /\ waitingQueue = <<>>) =>
           UNCHANGED <<available, inUse, waitingQueue, acq, rel, destroyed, holders>>

\* cleanup() completes, also when a destroyer failed: its promise resolves and
\* it leaves available, inUse and the wait queue empty
C18_Completes ==
  \A k \in DOMAIN cleanups, ok \in BOOLEAN :
    CleanupDestroyed(k, ok) =>
      /\ cleanups'[k].outcome = "resolved"
      /\ available' = <<>> /\ inUse' = {} /\ waitingQueue' = <<>>

\* C18: cleanup() rejects every waiting ticket, invokes destroy on every
\* resource in available and in inUse, leaves available, inUse and the wait
\* queue empty, completes without throwing even when destroy() fails for some
\* resources, and a second cleanup() call also completes and changes nothing.
C18_Cleanup ==
  [](\A k \in DOMAIN cleanups : cleanups[k].outcome # "rejected")
    /\ [][C18_Clears /\ C18_Completes]_vars

\* no acquire() or release() is in flight
PoolQuiet ==
  /\ \A c \in Calls : acq[c].pc \in {"idle", "resolved", "rejected"}
  /\ rel = {}

\* C39: after cleanup() has completed and every acquire or release that was
\* in flight at that time has settled, available and inUse are empty and
\* every resource the factory created has been destroyed: no resource that
\* was being created, validated or handed to a waiter during cleanup survives
\* in the pool. Stated for the states in which no acquire() was called after
\* the cleanup() call.
C39_NothingSurvives ==
  \A k \in DOMAIN cleanups :
    (/\ cleanups[k].pc = "done"
     /\ {c \in Calls : acq[c].pc # "idle"} = cleanups[k].started
     /\ PoolQuiet)
      => /\ available = <<>>
         /\ inUse = {}
         /\ 1..Len(creator) \subseteq destroyed

AcquireSettled(c) == acq[c].pc \in {"resolved", "rejected"}

\* an acquire() resolves with a resource and rejects only with one of the
\* four errors
C40_Outcomes ==
  \A c \in Calls :
    /\ acq[c].pc = "resolved" => acq[c].res \in 1..Len(creator)
    /\ acq[c].pc = "rejected"
         => acq[c].err \in {"timeout", "invalid", "creation", "cleanup"}

\* C40: every acquire() call eventually settles, assuming create, validate
\* and destroy terminate: it either resolves with a resource or rejects with
\* a timeout, resource-invalid, creation or cleanup error; no ticket stays in
\* the wait queue forever.
C40_Settles ==
  /\ [](C40_Outcomes)
  /\ \A c \in Calls : (acq[c].pc # "idle") ~> AcquireSettled(c)
  /\ \A c \in Calls : (c \in Range(waitingQueue)) ~> (c \notin Range(waitingQueue))

\* a ticket was taken from the wait queue by a release(), the resource was
\* found invalid and the acquire() of the ticket was rejected
C40_Witness ==
  \E c \in Calls :
    /\ handed[c] # 0
    /\ acq[c].pc = "rejected"
    /\ acq[c].err = "invalid"

\* the resources a release() is handing to a ticket
InTransit == {h.res : h \in {g \in rel : g.pc = "validating"}}

\* C38: whenever at least one ticket is in the wait queue, the pool has no
\* free capacity: available is empty and the number of resources in use or
\* in transit to a waiter equals maxSize; no ticket is left waiting until its
\* timeout while a resource could be created or reused for it.
C38_NoFreeCapacity ==
  waitingQueue # <<>>
    => /\ available = <<>>
       /\ Cardinality(inUse \cup InTransit) = maxSize

\* ------------------------------------------------------------ DIContainer
Tokens == {"A", "B", "C"}

\* the dependency lists the registration of token t may declare: up to
\* MaxDeps distinct tokens, in any order; only "A", the token resolved first,
\* may name itself
DepLists(t) ==
  {q \in UNION {[1..n -> Tokens] : n \in 0..MaxDeps} :
     /\ \A i, j \in 1..Len(q) : i # j => q[i] # q[j]
     /\ \A i \in 1..Len(q) : q[i] = t => t = "A"}

Unregistered == [kind |-> "none", singleton |-> FALSE, deps |-> <<>>, instance |-> 0]

IdleResolve == [status |-> "idle", target |-> "A", frames |-> <<>>]

\* A container after its registerFactory() calls: every token is unregistered
\* or bound to a factory (singleton or transient) with declared dependencies.
DIInit ==
  /\ services \in [Tokens -> {Unregistered} \cup
                   [kind : {"factory"}, singleton : BOOLEAN,
                    deps : UNION {DepLists(t) : t \in Tokens}, instance : {0}]]
  /\ \A t \in Tokens : services[t].deps \in DepLists(t)
  /\ resolutionStack = {}
  /\ rcalls = [c \in 1..MaxResolve |-> IdleResolve]
  /\ instances = 0
  /\ factoryCalls = [t \in Tokens |-> 0]

\* a frame of resolve(token): the dependency being awaited (idx), and where
\* the call stands: "deps" (awaiting resolve(dep)), "factory" (awaiting the
\* factory), "returned" or "thrown" (settled, its caller not yet resumed)
Frame(t, i, ph, e, v) == [token |-> t, idx |-> i, ph |-> ph, err |-> e, val |-> v]

\* resolve() line 81 without the loop over the dependencies
DepsDoneAlways(t, i) == TRUE

\* resolve() lines 79-83: the loop over registration.dependencies is over
\* once i of them have been resolved
DepsDone(t, i) == i >= Len(services[t].deps)

\* resolve(t) lines 56-85 entered with the frames fr below it: the synchronous
\* run down to the first suspension, that is until a resolve() throws or
\* returns a cached singleton, or a factory is invoked.  The result is the
\* frames, the resolution stack and the factories invoked.
RECURSIVE Enter(_, _, _)
Enter(fr, st, t) ==
  IF t \in st
  THEN [fr |-> Append(fr, Frame(t, 0, "thrown", "circular", 0)), st |-> st, inv |-> {}]
  ELSE IF services[t].kind = "none"
  THEN [fr |-> Append(fr, Frame(t, 0, "thrown", "notfound", 0)), st |-> st, inv |-> {}]
  ELSE IF services[t].singleton /\ services[t].instance # 0
  THEN [fr |-> Append(fr, Frame(t, 0, "returned", "none", services[t].instance)),
        st |-> st, inv |-> {}]
  ELSE IF DepsDone(t, 0)
  THEN [fr |-> Append(fr, Frame(t, 0, "factory", "none", 0)), st |-> st \cup {t},
        inv |-> {t}]
  ELSE Enter(Append(fr, Frame(t, 1, "deps", "none", 0)), st \cup {t},
             services[t].deps[1])

\* container.resolve(t) called from outside the container
CallResolve(c, t) ==
  /\ UNCHANGED diOthers
  /\ rcalls[c].status = "idle"
  /\ \A d \in 1..MaxResolve : d < c => rcalls[d].status # "idle"
  \* the registrations range over every graph: by symmetry the first call
  \* may be taken to be resolve("A")
  /\ c = 1 => t = "A"
  /\ LET e == Enter(<<>>, resolutionStack, t)
     IN /\ rcalls' = [rcalls EXCEPT ![c] = [status |-> "running", target |-> t,
                                           frames |-> e.fr]]
        /\ resolutionStack' = e.st
        /\ factoryCalls' = [u \in Tokens |->
                              factoryCalls[u] + (IF u \in e.inv THEN 1 ELSE 0)]
  /\ UNCHANGED <<services, instances>>

Top(c) == rcalls[c].frames[Len(rcalls[c].frames)]

\* a finally block that leaves the token in the resolution stack
FinallyKept(st, t) == st

\* resolve() lines 93-95: finally { this.resolutionStack.delete(token) }
Finally(st, t) == st \ {t}

\* a cache that also keeps the instances of transient registrations
CacheAlways(t, v) == [services EXCEPT ![t].instance = v]

\* resolve() lines 87-90: registration.instance = instance for a singleton
Cache(t, v) ==
  IF services[t].singleton THEN [services EXCEPT ![t].instance = v] ELSE services

\* resolve() lines 85-95: the factory of the innermost frame settled
FactorySettled(c, ok) ==
  /\ UNCHANGED diOthers
  /\ rcalls[c].status = "running"
  /\ Top(c).ph = "factory"
  /\ LET n == Len(rcalls[c].frames)
         t == Top(c).token
     IN /\ resolutionStack' = Finally(resolutionStack, t)
        /\ IF ok
           THEN /\ instances' = instances + 1
                /\ services' = Cache(t, instances + 1)
                /\ rcalls' = [rcalls EXCEPT ![c].frames[n] =
                                Frame(t, Top(c).idx, "returned", "none", instances + 1)]
           ELSE /\ rcalls' = [rcalls EXCEPT ![c].frames[n] =
                                Frame(t, Top(c).idx, "thrown", "factory", 0)]
                /\ UNCHANGED <<services, instances>>
  /\ UNCHANGED factoryCalls

\* resolve() lines 80-95: `await this.resolve(dep)` resumes in the caller's
\* frame with the settlement of the innermost frame
Resume(c) ==
  /\ UNCHANGED diOthers
  /\ rcalls[c].status = "running"
  /\ Len(rcalls[c].frames) > 1
  /\ Top(c).ph \in {"returned", "thrown"}
  /\ LET n == Len(rcalls[c].frames)
         p == rcalls[c].frames[n - 1]
         below == SubSeq(rcalls[c].frames, 1, n - 2)
     IN IF Top(c).ph = "thrown"
        THEN /\ resolutionStack' = Finally(resolutionStack, p.token)
             /\ rcalls' = [rcalls EXCEPT ![c].frames =
                             Append(below, Frame(p.token, p.idx, "thrown", Top(c).err, 0))]
             /\ UNCHANGED factoryCalls
        ELSE IF DepsDone(p.token, p.idx)
        THEN /\ rcalls' = [rcalls EXCEPT ![c].frames =
                             Append(below, Frame(p.token, p.idx, "factory", "none", 0))]
             /\ factoryCalls' = [factoryCalls EXCEPT ![p.token] = @ + 1]
             /\ UNCHANGED resolutionStack
        ELSE LET e == Enter(Append(below, Frame(p.token, p.idx + 1, "deps", "none", 0)),
                            resolutionStack, services[p.token].deps[p.idx + 1])
             IN /\ rcalls' = [rcalls EXCEPT ![c].frames = e.fr]
                /\ resolutionStack' = e.st
                /\ factoryCalls' = [u \in Tokens |->
                                      factoryCalls[u] + (IF u \in e.inv THEN 1 ELSE 0)]
  /\ UNCHANGED <<services, instances>>

\* the promise of the resolve() call c made from outside has settled
Settled(c) ==
  /\ rcalls[c].status = "running"
  /\ Len(rcalls[c].frames) = 1
  /\ Top(c).ph \in {"returned", "thrown"}

DINext ==
  \/ \E c \in 1..MaxResolve, t \in Tokens : CallResolve(c, t)
  \/ \E c \in 1..MaxResolve, ok \in BOOLEAN : FactorySettled(c, ok)
  \/ \E c \in 1..MaxResolve : Resume(c)

\* one resolve() call from outside the container
DISoloNext ==
  \/ \E t \in Tokens : CallResolve(1, t)
  \/ \E ok \in BOOLEAN : FactorySettled(1, ok)
  \/ Resume(1)

\* a container nobody uses
DIIdle ==
  /\ services = <<>>
  /\ resolutionStack = {}
  /\ rcalls = <<>>
  /\ instances = 0
  /\ factoryCalls = <<>>

\* ------------------------------------------------------------ container claims

\* the tokens t declares as dependencies
Succ(t) == Range(services[t].deps)

\* the tokens reached from the set S by following declared dependencies
RECURSIVE Closure(_)
Closure(S) ==
  LET N == S \cup UNION {Succ(u) : u \in S}
  IN IF N = S THEN S ELSE Closure(N)

\* the declared dependency graph of t, t itself left out unless it is reached
Reach(t) == Closure(Succ(t))

OnCycle(t) == t \in Reach(t)

HasCycle(t) == \E u \in {t} \cup Reach(t) : OnCycle(u)

\* no factory of a token on a cycle was invoked, no instance of one is cached
CycleNeverBuilt ==
  \A u \in Tokens : OnCycle(u) => factoryCalls[u] = 0 /\ services[u].instance = 0

\* C5: resolving a token whose declared dependency graph contains a cycle
\* fails with a circular-dependency error; the factory of no token on the
\* cycle is invoked and no instance of those tokens is cached.
C5_CircularError ==
  /\ \A c \in 1..MaxResolve :
       (Settled(c) /\ HasCycle(rcalls[c].target))
         => Top(c).ph = "thrown" /\ Top(c).err = "circular"
  /\ CycleNeverBuilt

\* C5 as amended: such a resolve always fails, with the circular-dependency
\* error or with the not-found or factory error of a dependency that is not on
\* a cycle and failed first; the factory of no token on a cycle is invoked and
\* no instance of those tokens is cached.
C5_CycleFails ==
  /\ \A c \in 1..MaxResolve :
       (Settled(c) /\ HasCycle(rcalls[c].target))
         => /\ Top(c).ph = "thrown"
            /\ \/ Top(c).err = "circular"
               \/ /\ Top(c).err = "notfound"
                  /\ \E u \in Reach(rcalls[c].target) : services[u].kind = "none"
               \/ /\ Top(c).err = "factory"
                  /\ \E u \in Reach(rcalls[c].target) :
                       ~OnCycle(u) /\ factoryCalls[u] > 0
  /\ CycleNeverBuilt

\* resolve("A") has failed with the circular-dependency error on a cycle
\* through another token, after a dependency outside the cycle was built
C5_Witness ==
  /\ Settled(1)
  /\ OnCycle("A")
  /\ "A" \notin Succ("A")
  /\ Top(1).err = "circular"
  /\ \E u \in Reach("A") : ~OnCycle(u) /\ services[u].instance # 0

\* C33: resolve(token) fails with a circular-dependency error only if the
\* dependency graph of token holds a cycle: when two resolve calls for the
\* same not-yet-built token are in flight at the same time (the factory is
\* suspended), neither of them fails with a circular-dependency error.
C33_OnlyCycles ==
  \A c \in 1..MaxResolve :
    (Settled(c) /\ Top(c).ph = "thrown" /\ Top(c).err = "circular")
      => HasCycle(rcalls[c].target)

\* the frames of the resolve() calls, and those of them that hold their token
\* in the resolution stack: between resolutionStack.add and the finally block
AllFrames ==
  UNION {{<<c, i>> : i \in DOMAIN rcalls[c].frames} : c \in DOMAIN rcalls}

FrameAt(x) == rcalls[x[1]].frames[x[2]]

InFlight(t) ==
  {x \in AllFrames : FrameAt(x).token = t /\ FrameAt(x).ph \in {"deps", "factory"}}

\* tokens some resolve() that has settled failed to build
FailedBefore(t) ==
  \E c \in DOMAIN rcalls :
    Settled(c) /\ rcalls[c].target = t /\ Top(c).ph = "thrown"

\* a failure caches nothing: the registrations change only when a factory
\* returns an instance
C19_NothingCached ==
  services' # services =>
    \E c \in DOMAIN rcalls :
      /\ rcalls[c].status = "running" /\ Top(c).ph = "factory"
      /\ Len(rcalls'[c].frames) = Len(rcalls[c].frames)
      /\ Top(c)'.ph = "returned" /\ Top(c)'.val = instances'
      /\ instances' = instances + 1
      /\ services' = [services EXCEPT ![Top(c).token].instance = instances']

\* after resolve(t) has failed, a resolve(t) made when no other resolve of t
\* is in flight and none has built t since does not fail on entry with the
\* circular-dependency error: it resolves the dependencies of t again and
\* invokes its factory again
C19_Retries ==
  \A c \in DOMAIN rcalls, t \in Tokens :
    (rcalls[c].status = "idle" /\ rcalls'[c].status = "running"
       /\ rcalls'[c].target = t /\ FailedBefore(t) /\ InFlight(t) = {}
       /\ services[t].kind = "factory" /\ services[t].instance = 0)
      => /\ rcalls'[c].frames[1].token = t
         /\ rcalls'[c].frames[1].ph \in {"deps", "factory"}
         /\ t \in resolutionStack'
         /\ DepsDone(t, 0) => factoryCalls'[t] = factoryCalls[t] + 1

\* the resolution stack holds exactly the tokens being resolved, and a token
\* whose construction failed has no cached instance unless a later factory
\* call returned one
C19_StackClean ==
  /\ LET F == {x \in AllFrames : FrameAt(x).ph \in {"deps", "factory"}}
     IN /\ resolutionStack = {FrameAt(x).token : x \in F}
        /\ Cardinality(F) = Cardinality(resolutionStack)
  /\ \A t \in Tokens : services[t].instance # 0 => services[t].instance <= instances

\* C19: when the factory of a singleton token, or the resolution of one of its
\* declared dependencies, fails, no instance is cached and the token is
\* removed from the currently-resolving set, so that a later resolve(token)
\* invokes the factory again and can succeed instead of failing with the
\* earlier error or with a circular-dependency error.
C19_NoPoison == [](C19_StackClean) /\ [][C19_NothingCached /\ C19_Retries]_vars

\* resolve("A") failed in the factory of the singleton A, and a second
\* resolve("A") invoked the factory again and returned an instance
C19_Witness ==
  /\ services["A"].singleton
  /\ Settled(1) /\ Top(1).ph = "thrown" /\ Top(1).err = "factory"
  /\ Top(1).token = "A" /\ services["A"].deps = <<>>
  /\ rcalls[2].target = "A" /\ Settled(2) /\ Top(2).ph = "returned"
  /\ factoryCalls["A"] = 2
  /\ services["A"].instance = Top(2).val

\* the resolve() call c is at the frame of token t awaiting the factory
AtFactory(c, t) ==
  /\ rcalls[c].frames # <<>>
  /\ Top(c).token = t
  /\ Top(c).ph = "factory"

\* a cached singleton is returned as it is and its factory is not invoked
\* again; nothing is cached for a transient registration
C20_Cached ==
  /\ \A t \in Tokens :
       (services[t].kind = "factory" /\ ~services[t].singleton)
         => services[t].instance = 0
  /\ \A c \in DOMAIN rcalls : \A i \in DOMAIN rcalls[c].frames :
       LET f == rcalls[c].frames[i]
       IN /\ f.ph = "factory" => services[f.token].instance = 0
          /\ (f.ph = "returned" /\ services[f.token].singleton)
               => f.val = services[f.token].instance

\* once a singleton is cached neither the cache nor the number of invocations
\* of its factory changes
C20_Memoized ==
  \A t \in Tokens :
    services[t].instance # 0 =>
      /\ services'[t].instance = services[t].instance
      /\ factoryCalls'[t] = factoryCalls[t]

\* every resolve of a token that reaches its factory invokes it once, no
\* other step invokes it, and the instance a transient factory returns is a
\* new one
C20_Transient ==
  /\ \A t \in Tokens :
       factoryCalls'[t] =
         factoryCalls[t]
           + (IF \E c \in DOMAIN rcalls : rcalls'[c] # rcalls[c] /\ AtFactory(c, t)'
              THEN 1 ELSE 0)
  /\ \A c \in DOMAIN rcalls :
       (/\ rcalls[c].status = "running" /\ Top(c).ph = "factory"
        /\ Len(rcalls'[c].frames) = Len(rcalls[c].frames)
        /\ Top(c)'.ph = "returned" /\ ~services[Top(c).token].singleton)
         => /\ Top(c)'.val = instances + 1
            /\ instances' = instances + 1
            /\ UNCHANGED services

Priorities == {0, 1}

\* request.type of a request
RequestTypes == {"navigate", "analyze"}

\* the request types a capability's canHandle accepts
HandledTypes == {{"navigate"}, {"navigate", "analyze"}}

\* the id of the request of call c
RequestId(c) == c

NoResponse == [requestId |-> 0, success |-> FALSE, error |-> "none", duration |-> FALSE]

IdleExecute ==
  [pc |-> "idle", invoked |-> <<>>, thrown |-> "none",
   caught |-> "none", events |-> <<>>, handled |-> "none",
   outcome |-> "pending", resp |-> NoResponse]

\* createCapability has registered MaxCaps capabilities, enabled by default
CapInit ==
  /\ capabilityInstances \in
       [1..MaxCaps -> [priority : Priorities, enabled : {TRUE}, types : HandledTypes]]
  /\ xcalls = [c \in 1..MaxExec |-> IdleExecute]
  /\ mcalls = <<>>

\* canHandle(request) of the i-th registered capability
CanHandle(i, ty) == ty \in capabilityInstances[i].types

\* the comparator ascending-priority code would pass to sort
CompareAscending(a, b) ==
  capabilityInstances[a].priority - capabilityInstances[b].priority

\* the comparator passed to sort: (a, b) => b.priority - a.priority
Compare(a, b) ==
  capabilityInstances[b].priority - capabilityInstances[a].priority

\* Array.prototype.sort is stable: x, which followed every element of the
\* sorted prefix in the input, goes before the first element that the
\* comparator orders after it
RECURSIVE Insert(_, _)
Insert(sorted, x) ==
  IF sorted = <<>> THEN <<x>>
  ELSE IF Compare(Head(sorted), x) > 0 THEN <<x>> \o sorted
  ELSE <<Head(sorted)>> \o Insert(Tail(sorted), x)

RECURSIVE Sort(_)
Sort(s) ==
  IF s = <<>> THEN <<>>
  ELSE Insert(Sort(SubSeq(s, 1, Len(s) - 1)), s[Len(s)])

\* the registry's capabilities for a request, as indices into the registry
GetCapabilitiesForRequest(ty) ==
  LET Matches(i) == capabilityInstances[i].enabled /\ CanHandle(i, ty)
      all == [i \in 1..Len(capabilityInstances) |-> i]
  IN Sort(SelectSeq(all, Matches))

\* eventBus.emit(name, ...) as seen by the call
Emit(evs, name) == Append(evs, name)

\* an error response that loses the error it was built for
ErrorResponseWithoutError(c, err) ==
  [requestId |-> RequestId(c), success |-> FALSE, error |-> "none", duration |-> TRUE]

\* the response the catch block builds
ErrorResponse(c, err) ==
  [requestId |-> RequestId(c), success |-> FALSE, error |-> err, duration |-> TRUE]

\* the response a capability builds with createSuccessResponse or
\* createErrorResponse, duration stamped by execute
CapabilityResponse(c, ok) ==
  [requestId |-> RequestId(c), success |-> ok,
   error |-> IF ok THEN "none" ELSE "E", duration |-> TRUE]

\* a catch block that emits no event
CatchSilently(x, err) ==
  [x EXCEPT !.pc = "handling", !.caught = err, !.handled = err]

\* the catch block of execute up to the await of handleError, which returns
\* normally: its handlers and reporters run inside try
Catch(x, err) ==
  [x EXCEPT !.pc = "handling",
            !.caught = err,
            !.events = Emit(@, "failed"),
            !.handled = err]

\* execute(request) up to its first suspension
ExecuteCall(c, ty) ==
  /\ UNCHANGED capOthers
  /\ xcalls[c].pc = "idle"
  /\ \A d \in 1..(c - 1) : xcalls[d].pc # "idle"
  /\ LET started == [xcalls[c] EXCEPT !.events = Emit(@, "started")]
         capabilities == GetCapabilitiesForRequest(ty)
     IN IF Len(capabilities) = 0
        THEN xcalls' = [xcalls EXCEPT ![c] = Catch(started, "nocap")]
        ELSE xcalls' = [xcalls EXCEPT ![c] =
                          [started EXCEPT !.pc = "running",
                                          !.invoked = Append(@, capabilities[1])]]
  /\ UNCHANGED <<capabilityInstances, mcalls>>

\* capability.execute(request) settles: it returns a success response, returns
\* an error response, or throws
CapabilitySettled(c, out) ==
  /\ UNCHANGED capOthers
  /\ xcalls[c].pc = "running"
  /\ IF out = "throw"
     THEN xcalls' = [xcalls EXCEPT ![c] = Catch([@ EXCEPT !.thrown = "E"], "E")]
     ELSE xcalls' = [xcalls EXCEPT ![c] =
                       [@ EXCEPT !.pc = "done",
                                 !.events = Emit(@, "completed"),
                                 !.outcome = "resolved",
                                 !.resp = CapabilityResponse(c, out = "success")]]
  /\ UNCHANGED <<capabilityInstances, mcalls>>

\* the await of handleError resumes and execute returns errorResponse
HandleErrorReturned(c) ==
  /\ UNCHANGED capOthers
  /\ xcalls[c].pc = "handling"
  /\ xcalls' = [xcalls EXCEPT ![c] =
                  [@ EXCEPT !.pc = "done",
                            !.outcome = "resolved",
                            !.resp = ErrorResponse(c, xcalls[c].caught)]]
  /\ UNCHANGED <<capabilityInstances, mcalls>>

\* capability.setEnabled(enabled)
SetEnabled(i, enabled) ==
  /\ UNCHANGED capOthers
  /\ capabilityInstances[i].enabled # enabled
  /\ capabilityInstances' = [capabilityInstances EXCEPT ![i].enabled = enabled]
  /\ UNCHANGED <<xcalls, mcalls>>

CapNext ==
  \/ \E c \in 1..MaxExec, ty \in RequestTypes : ExecuteCall(c, ty)
  \/ \E c \in 1..MaxExec, out \in {"success", "failure", "throw"} :
       CapabilitySettled(c, out)
  \/ \E c \in 1..MaxExec : HandleErrorReturned(c)
  \/ \E i \in 1..MaxCaps, enabled \in BOOLEAN : SetEnabled(i, enabled)

\* a registry and an executor nobody uses
CapIdle ==
  /\ capabilityInstances = <<>>
  /\ xcalls = <<>>
  /\ mcalls = <<>>

\* ------------------------------------------------------------ executeWithMultiple

\* options.mode
Modes == {"parallel", "sequential"}

\* options.maxCapabilities: 0 stands for an option that is absent (or 0)
MaxCapabilitiesOptions == 0..MaxCaps

IdleMultiple ==
  [pc |-> "idle", mode |-> "sequential", aggregate |-> FALSE, selected |-> <<>>,
   invoked |-> <<>>, settled |-> <<>>, results |-> <<>>,
   outcome |-> "pending", ret |-> <<>>]

\* a registry with its capabilities and an executor whose executeWithMultiple
\* is called
MultiInit ==
  /\ capabilityInstances \in
       [1..MaxCaps -> [priority : Priorities, enabled : {TRUE}, types : HandledTypes]]
  /\ xcalls = <<>>
  /\ mcalls = [m \in 1..MaxMulti |-> IdleMultiple]

\* the response capability i returns
Response(i, ok) == [cap |-> i, success |-> ok]

\* capabilities.slice(0, options.maxCapabilities || capabilities.length)
Selected(capabilities, maxCapabilities) ==
  SubSeq(capabilities, 1,
         IF maxCapabilities = 0 \/ maxCapabilities > Len(capabilities)
         THEN Len(capabilities) ELSE maxCapabilities)

\* a sequential loop that goes on after a success
StopsNever(call, ok) == FALSE

\* executeWithMultiple lines 477-480: stop on first success if not aggregating
Stops(call, ok) == ~call.aggregate /\ ok

\* executeWithMultiple(request, options) up to its first suspension: parallel
\* mode invokes every selected capability (line 469), sequential mode the
\* first one (line 474); with nothing selected both return the empty list
ExecuteWithMultipleCall(m, ty, mode, maxCapabilities, aggregate) ==
  /\ UNCHANGED capOthers
  /\ mcalls[m].pc = "idle"
  /\ \A d \in 1..(m - 1) : mcalls[d].pc # "idle"
  /\ LET sel == Selected(GetCapabilitiesForRequest(ty), maxCapabilities)
         call == [mcalls[m] EXCEPT !.mode = mode, !.aggregate = aggregate,
                                   !.selected = sel]
     IN IF sel = <<>>
        THEN mcalls' = [mcalls EXCEPT ![m] =
                          [call EXCEPT !.pc = "done", !.outcome = "resolved"]]
        ELSE IF mode = "parallel"
        THEN mcalls' = [mcalls EXCEPT ![m] =
                          [call EXCEPT !.pc = "running",
                                       !.invoked = sel,
                                       !.settled = [i \in 1..Len(sel) |-> "pending"]]]
        ELSE mcalls' = [mcalls EXCEPT ![m] =
                          [call EXCEPT !.pc = "running",
                                       !.invoked = <<sel[1]>>,
                                       !.settled = <<"pending">>]]
  /\ UNCHANGED <<capabilityInstances, xcalls>>

\* parallel mode, lines 469-470: the promise of the i-th capability settles;
\* Promise.all rejects with the first rejection and resolves, with the
\* responses in the order of the capabilities, once all have resolved
ParallelSettled(m, i, out) ==
  /\ UNCHANGED capOthers
  /\ mcalls[m].mode = "parallel"
  /\ i \in DOMAIN mcalls[m].settled
  /\ mcalls[m].settled[i] = "pending"
  /\ LET call == [mcalls[m] EXCEPT !.settled[i] = out]
         all == \A j \in DOMAIN call.settled : call.settled[j] \in {"success", "failure"}
     IN IF call.outcome # "pending"
        THEN mcalls' = [mcalls EXCEPT ![m] = call]
        ELSE IF out = "throw"
        THEN mcalls' = [mcalls EXCEPT ![m] =
                          [call EXCEPT !.pc = "done", !.outcome = "rejected"]]
        ELSE IF all
        THEN mcalls' = [mcalls EXCEPT ![m] =
                          [call EXCEPT !.pc = "done", !.outcome = "resolved",
                             !.ret = [j \in DOMAIN call.settled |->
                                        Response(call.selected[j],
                                                 call.settled[j] = "success")]]]
        ELSE mcalls' = [mcalls EXCEPT ![m] = call]
  /\ UNCHANGED <<capabilityInstances, xcalls>>

\* sequential mode, lines 473-482: the awaited capability settles; a throw
\* leaves the loop and the function, a response is pushed and the loop
\* breaks, invokes the next capability or ends
SequentialSettled(m, out) ==
  /\ UNCHANGED capOthers
  /\ mcalls[m].mode = "sequential"
  /\ mcalls[m].pc = "running"
  /\ LET n == Len(mcalls[m].invoked)
         call == [mcalls[m] EXCEPT !.settled[n] = out]
         pushed == [call EXCEPT !.results =
                      Append(@, Response(call.invoked[n], out = "success"))]
     IN IF out = "throw"
        THEN mcalls' = [mcalls EXCEPT ![m] =
                          [call EXCEPT !.pc = "done", !.outcome = "rejected"]]
        ELSE IF Stops(call, out = "success") \/ n = Len(call.selected)
        THEN mcalls' = [mcalls EXCEPT ![m] =
                          [pushed EXCEPT !.pc = "done", !.outcome = "resolved",
                                         !.ret = pushed.results]]
        ELSE mcalls' = [mcalls EXCEPT ![m] =
                          [pushed EXCEPT !.invoked = Append(@, call.selected[n + 1]),
                                         !.settled = Append(@, "pending")]]
  /\ UNCHANGED <<capabilityInstances, xcalls>>

Outcomes == {"success", "failure", "throw"}

MultiNext ==
  \/ \E m \in 1..MaxMulti, ty \in RequestTypes, mode \in Modes,
        k \in MaxCapabilitiesOptions, aggregate \in BOOLEAN :
       ExecuteWithMultipleCall(m, ty, mode, k, aggregate)
  \/ \E m \in 1..MaxMulti, i \in 1..MaxCaps, out \in Outcomes :
       ParallelSettled(m, i, out)
  \/ \E m \in 1..MaxMulti, out \in Outcomes : SequentialSettled(m, out)
  \/ \E i \in 1..MaxCaps, enabled \in BOOLEAN : SetEnabled(i, enabled)

\* executeWithMultiple calls in sequential mode only
SequentialNext ==
  \/ \E m \in 1..MaxMulti, ty \in RequestTypes,
        k \in MaxCapabilitiesOptions, aggregate \in BOOLEAN :
       ExecuteWithMultipleCall(m, ty, "sequential", k, aggregate)
  \/ \E m \in 1..MaxMulti, out \in Outcomes : SequentialSettled(m, out)

\* ------------------------------------------------------------ capability claims

\* capability i is enabled and accepts a request of type ty
Eligible(i, ty) ==
  /\ i \in 1..Len(capabilityInstances)
  /\ capabilityInstances[i].enabled
  /\ ty \in capabilityInstances[i].types

\* no eligible capability has a higher priority than i, and none of the same
\* priority was registered before i
Best(i, ty) ==
  /\ Eligible(i, ty)
  /\ \A j \in 1..Len(capabilityInstances) :
       Eligible(j, ty) =>
         \/ capabilityInstances[j].priority < capabilityInstances[i].priority
         \/ /\ capabilityInstances[j].priority = capabilityInstances[i].priority
            /\ j >= i

C6_Selects ==
  \A c \in 1..MaxExec, ty \in RequestTypes :
    ExecuteCall(c, ty) =>
      IF \E i \in 1..Len(capabilityInstances) : Eligible(i, ty)
      THEN /\ Len(xcalls'[c].invoked) = 1
           /\ Best(xcalls'[c].invoked[1], ty)
      ELSE xcalls'[c].invoked = <<>>

C6_OnlyThen ==
  \A c \in 1..MaxExec :
    xcalls'[c].invoked # xcalls[c].invoked => xcalls[c].pc = "idle"

\* C6: execute() invokes exactly one capability, the enabled one whose
\* canHandle is true with the highest priority, the first registered among
\* equal priorities; a disabled capability or one whose canHandle is false is
\* never invoked (and none is invoked when none is eligible).
C6_BestInvoked == [][C6_Selects /\ C6_OnlyThen]_vars

\* capability 2 was invoked although capability 1, enabled and accepting the
\* request but of lower priority, was registered before it
C6_Witness ==
  /\ xcalls[1].pc = "running"
  /\ xcalls[1].invoked = <<2>>
  /\ \A i \in 1..2, ty \in RequestTypes : Eligible(i, ty)
  /\ capabilityInstances[1].priority < capabilityInstances[2].priority

C21_Reported ==
  \A c \in DOMAIN xcalls :
    (xcalls[c].pc = "done" /\ ~xcalls[c].resp.success)
      => xcalls[c].handled = xcalls[c].resp.error

\* the lifecycle events of a call, by where the call stands
C22_Events ==
  \A c \in DOMAIN xcalls :
    LET x == xcalls[c]
    IN /\ x.pc = "idle" => x.events = <<>>
       /\ x.pc = "running" => x.events = <<"started">>
       /\ x.pc = "handling" => x.events = <<"started", "failed">>
       /\ x.pc = "done" =>
            x.events \in {<<"started", "completed">>, <<"started", "failed">>}
       /\ x.invoked # <<>> => (x.events # <<>> /\ x.events[1] = "started")

\* the events of a call only grow, and the call that returns emits nothing
\* while returning from the catch block
C22_Grows ==
  \A c \in DOMAIN xcalls :
    /\ Len(xcalls'[c].events) >= Len(xcalls[c].events)
    /\ SubSeq(xcalls'[c].events, 1, Len(xcalls[c].events)) = xcalls[c].events
    /\ (xcalls[c].pc = "running" /\ xcalls'[c].pc # "running")
         => Len(xcalls'[c].events) = 2

\* C22: each execute() call emits execution.started before the capability is
\* invoked, and exactly one of execution.completed or execution.failed after
\* the capability call and before execute returns; never both and never
\* neither.
C22_Lifecycle == [](C22_Events) /\ [][C22_Grows]_vars

\* execute returned after a capability threw: started, then failed
C22_Witness ==
  /\ xcalls[1].pc = "done"
  /\ xcalls[1].thrown = "E"
  /\ xcalls[1].events = <<"started", "failed">>

\* a sequence of capabilities in descending priority order, registration
\* order among equal priorities
RECURSIVE Descending(_)
Descending(q) ==
  \/ Len(q) <= 1
  \/ /\ \/ capabilityInstances[q[1]].priority > capabilityInstances[q[2]].priority
        \/ /\ capabilityInstances[q[1]].priority = capabilityInstances[q[2]].priority
           /\ q[1] < q[2]
     /\ Descending(Tail(q))

\* q is the first Len(q) elements of r
IsPrefix(q, r) == Len(q) <= Len(r) /\ q = SubSeq(r, 1, Len(q))

\* sequential mode without aggregation
SequentialFirst(m) ==
  /\ mcalls[m].pc # "idle"
  /\ mcalls[m].mode = "sequential"
  /\ ~mcalls[m].aggregate

C23_OneAtATime ==
  \A m \in DOMAIN mcalls :
    SequentialFirst(m) =>
      LET call == mcalls[m]
      IN /\ Descending(call.invoked)
         /\ IsPrefix(call.invoked, call.selected)
         /\ Len(call.settled) = Len(call.invoked)
         \* only the capability invoked last can be running or have succeeded
         /\ \A i \in 1..(Len(call.invoked) - 1) : call.settled[i] = "failure"
         /\ call.outcome = "resolved" =>
              /\ Len(call.ret) = Len(call.invoked)
              /\ \A i \in DOMAIN call.ret :
                   /\ call.ret[i].cap = call.invoked[i]
                   /\ call.ret[i].success = (call.settled[i] = "success")
              \* the loop ended on a success or on the end of the list
              /\ \/ call.invoked = call.selected
                 \/ call.settled[Len(call.invoked)] = "success"

\* no capability is invoked once one has returned a successful result
C23_StopsAtSuccess ==
  \A m \in DOMAIN mcalls :
    (SequentialFirst(m) /\ \E i \in DOMAIN mcalls[m].settled :
                             mcalls[m].settled[i] = "success")
      => mcalls'[m].invoked = mcalls[m].invoked

\* C23: in executeWithMultiple with mode sequential and aggregateResults off,
\* capabilities are tried one at a time in descending priority order and no
\* capability is invoked after the first one that returns a successful
\* result; the returned list holds the responses of exactly the capabilities
\* that were invoked, in that order.
C23_FirstSuccess == [](C23_OneAtATime) /\ [][C23_StopsAtSuccess]_vars

\* two capabilities were selected, the first returned a success and the list
\* returned holds its response only
C23_Witness ==
  /\ SequentialFirst(1)
  /\ Len(mcalls[1].selected) = 2
  /\ mcalls[1].outcome = "resolved"
  /\ mcalls[1].ret = <<Response(mcalls[1].selected[1], TRUE)>>

\* C24: executeWithMultiple never rejects because a capability throws: in
\* parallel and in sequential mode a throwing capability is represented by a
\* structured failure response in the returned list.
C24_NeverRejects ==
  \A m \in DOMAIN mcalls :
    /\ mcalls[m].outcome # "rejected"
    /\ mcalls[m].outcome = "resolved" =>
         \A i \in DOMAIN mcalls[m].settled :
           mcalls[m].settled[i] = "throw" =>
             /\ i \in DOMAIN mcalls[m].ret
             /\ ~mcalls[m].ret[i].success

\* ------------------------------------------------------------ pipeline

\* stage ids of the stage lists buildExecutionOrder is applied to
StageIds == {"A", "B", "C", "D"}

\* dependency lists of those stages
StageDeps == {{}, {"A"}, {"B", "C"}}

\* stage ids and dependency lists of the pipelines that are executed
RunStageIds == {"A", "B", "C"}

RunStageDeps == {{}, {"A"}, {"B"}}

\* the stage lists of length 1..n over the stage records in S
StageLists(S, n) == UNION {[1..k -> S] : k \in 1..n}

NotBuilt == [done |-> FALSE, thrown |-> FALSE, order |-> <<>>]

\* the execution object before execute() is called; n is stages.length
IdleExecution(n) ==
  [status |-> "none", pc |-> "idle", wave |-> 0, pos |-> 0,
   stage |-> [s \in 1..n |-> "idle"],
   settledAt |-> [s \in 1..n |-> {}],
   inflightAt |-> [s \in 1..n |-> {}],
   stageResults |-> [id \in StageIds |-> "none"],
   currentStage |-> "none", error |-> "none", progress |-> 0,
   threw |-> {}, outcome |-> "pending",
   endTime |-> FALSE, cancelled |-> 0, cancelCalls |-> 0]

\* dependencies.every(dep => visited.has(dep)) with some in place of every
DependenciesMetSome(st, visited) ==
  st.dependencies = {} \/ st.dependencies \cap visited # {}

\* dependencies.every(dep => visited.has(dep))
DependenciesMet(st, visited) == st.dependencies \subseteq visited

\* one scan of the stage list: the stages (as positions in the list, in list
\* order) that are not visited and whose dependencies are all visited
CurrentGroup(sts, visited) ==
  LET ready(i) == sts[i].id \notin visited /\ DependenciesMet(sts[i], visited)
      all == [i \in 1..Len(sts) |-> i]
  IN SelectSeq(all, ready)

\* an empty group that ends the loop with the waves built so far
ReturnPartial(order) == [done |-> TRUE, thrown |-> FALSE, order |-> order]

\* an empty group: throw 'Circular dependency detected in pipeline stages'
EmptyGroup(order) == [done |-> TRUE, thrown |-> TRUE, order |-> <<>>]

\* the while loop of buildExecutionOrder
RECURSIVE BuildFrom(_, _, _)
BuildFrom(sts, visited, order) ==
  IF Cardinality(visited) < Len(sts)
  THEN LET currentGroup == CurrentGroup(sts, visited)
       IN IF Len(currentGroup) = 0
          THEN EmptyGroup(order)
          ELSE BuildFrom(sts,
                         visited \cup {sts[currentGroup[j]].id :
                                         j \in 1..Len(currentGroup)},
                         Append(order, currentGroup))
  ELSE [done |-> TRUE, thrown |-> FALSE, order |-> order]

BuildExecutionOrder(sts) == BuildFrom(sts, {}, <<>>)

\* validatePipelineConfig: the error it throws, or "ok"
ValidatePipelineConfig(sts) ==
  IF Len(sts) = 0 THEN "empty"
  ELSE IF \E i, j \in 1..Len(sts) : i < j /\ sts[i].id = sts[j].id
  THEN "duplicate"
  ELSE IF \E i \in 1..Len(sts) :
            \E dep \in sts[i].dependencies :
              \A j \in 1..Len(sts) : sts[j].id # dep
  THEN "missing"
  ELSE "ok"

\* the stage lists buildExecutionOrder is applied to
OrderInit ==
  /\ stages \in StageLists([id : StageIds, dependencies : StageDeps,
                            optional : {FALSE}], MaxStages)
  /\ parallelExecution = FALSE
  /\ built = NotBuilt
  /\ pinit = "none"
  /\ pexec = IdleExecution(Len(stages))

\* buildExecutionOrder(stages)
BuildOrder ==
  /\ UNCHANGED pipeOthers
  /\ ~built.done
  /\ built' = BuildExecutionOrder(stages)
  /\ UNCHANGED <<stages, parallelExecution, pinit, pexec>>

\* the pipelines that are constructed
PipeInit ==
  /\ stages \in StageLists([id : RunStageIds, dependencies : RunStageDeps,
                            optional : BOOLEAN], MaxRunStages)
  /\ parallelExecution \in BOOLEAN
  /\ built = NotBuilt
  /\ pinit = "none"
  /\ pexec = IdleExecution(Len(stages))

\* a pipeline nobody uses
PipeIdle ==
  /\ stages = <<>>
  /\ parallelExecution = FALSE
  /\ built = NotBuilt
  /\ pinit = "none"
  /\ pexec = <<>>

\* ------------------------------------------------------------ pipeline execution

\* the stages whose executeStage promise has settled, and those in flight
SettledStages(x) == {s \in DOMAIN x.stage : x.stage[s] \in {"resolved", "rejected"}}

RunningStages(x) == {s \in DOMAIN x.stage : x.stage[s] = "running"}

\* the catch block of executeStage: a non-optional stage rethrows, an optional
\* one records the error and the promise resolves
StageFailedRethrows(x, s) ==
  [x EXCEPT !.stage[s] = "rejected", !.threw = @ \cup {s}]

\* threw: the stages whose try block threw
StageFailed(x, s) ==
  IF stages[s].optional
  THEN [x EXCEPT !.stage[s] = "resolved", !.stageResults[stages[s].id] = "error",
                 !.threw = @ \cup {s}]
  ELSE [x EXCEPT !.stage[s] = "rejected", !.threw = @ \cup {s}]

\* executor.execute returned: the result is recorded
StageSucceeded(x, s) ==
  [x EXCEPT !.stage[s] = "resolved", !.stageResults[stages[s].id] = "result"]

\* executeStage up to its suspension. Before executor.execute is awaited the
\* try block can throw: createStageExecutor throws for an unknown stage type,
\* and createStageContext calls this.getStageDependencies, a method the class
\* does not define (it defines getStageeDependencies), which throws TypeError
\* unless the object provides that method. Both outcomes are modelled.
ExecuteStage(x, s, throws) ==
  LET entered == [x EXCEPT !.currentStage = stages[s].id,
                           !.settledAt[s] = SettledStages(x),
                           !.inflightAt[s] = RunningStages(x),
                           !.stage[s] = "running"]
  IN IF throws THEN StageFailed(entered, s) ELSE entered

\* stageGroup.map(stage => this.executeStage(stage, execution))
RECURSIVE ExecuteAll(_, _, _)
ExecuteAll(x, group, T) ==
  IF group = <<>> THEN x
  ELSE ExecuteAll(ExecuteStage(x, Head(group), Head(group) \in T), Tail(group), T)

\* a for loop over the group that ends after its first stage
GroupDoneEarly(group, pos) == TRUE

\* the for loop over the stages of a group has reached its end
GroupDone(group, pos) == pos >= Len(group)

\* the body of the loop over the waves, up to its first suspension
StartGroup(x, order, w, T) ==
  LET stageGroup == order[w]
  IN IF parallelExecution /\ Len(stageGroup) > 1
     THEN [ExecuteAll(x, stageGroup, T) EXCEPT !.pc = "all", !.wave = w, !.pos = 0]
     ELSE [ExecuteStage(x, stageGroup[1], stageGroup[1] \in T)
             EXCEPT !.pc = "stage", !.wave = w, !.pos = 1]

\* the stages whose executeStage is called synchronously when wave w begins
Starting(order, w) ==
  IF w > Len(order) THEN {}
  ELSE IF parallelExecution /\ Len(order[w]) > 1 THEN Range(order[w])
  ELSE {order[w][1]}

\* a catch block of execute that does not record the error
FailWithoutError(x, err) ==
  [x EXCEPT !.status = "failed", !.pc = "done", !.outcome = "rejected",
            !.endTime = TRUE]

\* the catch block of execute
Fail(x, err) ==
  [x EXCEPT !.status = "failed", !.error = err, !.pc = "done", !.outcome = "rejected",
            !.endTime = TRUE]

\* executeStages returned
Complete(x) ==
  [x EXCEPT !.status = "completed", !.progress = 100, !.pc = "done",
            !.outcome = "resolved", !.endTime = TRUE]

\* the end of the body of the loop over the waves, and the next iteration
GroupCompleted(x, order, w, T) ==
  LET y == [x EXCEPT !.progress = (w * 100) \div Len(order)]
  IN IF w < Len(order) THEN StartGroup(y, order, w + 1, T) ELSE Complete(y)

\* initialize(): doInitialize validates the configuration
Initialize ==
  /\ UNCHANGED pipeOthers
  /\ pinit = "none"
  /\ pinit' = IF ValidatePipelineConfig(stages) = "ok" THEN "ok" ELSE "rejected"
  /\ UNCHANGED <<stages, parallelExecution, built, pexec>>

\* execute(input) up to its first suspension; T: the stages whose executeStage
\* throws before it awaits the executor
ExecutePipeline(T) ==
  /\ UNCHANGED pipeOthers
  /\ pexec.status = "none"
  /\ LET executionOrder == BuildExecutionOrder(stages)
         x == [pexec EXCEPT !.status = "running"]
     IN /\ built' = executionOrder
        /\ pexec' = IF executionOrder.thrown THEN Fail(x, "circular")
                    ELSE IF Len(executionOrder.order) = 0 THEN Complete(x)
                    ELSE StartGroup(x, executionOrder.order, 1, T)
  /\ UNCHANGED <<stages, parallelExecution, pinit>>

\* executor.execute(stage, stageContext) settles
StageSettled(s, ok) ==
  /\ UNCHANGED pipeOthers
  /\ s \in DOMAIN pexec.stage
  /\ pexec.stage[s] = "running"
  /\ pexec' = IF ok THEN StageSucceeded(pexec, s) ELSE StageFailed(pexec, s)
  /\ UNCHANGED <<stages, parallelExecution, built, pinit>>

\* await this.executeStage(stage, execution) resumes
ResumeStage(T) ==
  /\ UNCHANGED pipeOthers
  /\ pexec.pc = "stage"
  /\ LET stageGroup == built.order[pexec.wave]
         s == stageGroup[pexec.pos]
     IN /\ pexec.stage[s] \in {"resolved", "rejected"}
        /\ pexec' =
             IF pexec.stage[s] = "rejected" THEN Fail(pexec, "stage")
             ELSE IF GroupDone(stageGroup, pexec.pos)
             THEN GroupCompleted(pexec, built.order, pexec.wave, T)
             ELSE [ExecuteStage(pexec, stageGroup[pexec.pos + 1],
                                stageGroup[pexec.pos + 1] \in T)
                     EXCEPT !.pos = pexec.pos + 1]
  /\ UNCHANGED <<stages, parallelExecution, built, pinit>>

\* await Promise.all(...) resumes: rejected as soon as one executeStage promise
\* is rejected, resolved when all are resolved
ResumeAll(T) ==
  /\ UNCHANGED pipeOthers
  /\ pexec.pc = "all"
  /\ LET stageGroup == Range(built.order[pexec.wave])
     IN IF \E s \in stageGroup : pexec.stage[s] = "rejected"
        THEN pexec' = Fail(pexec, "stage")
        ELSE /\ \A s \in stageGroup : pexec.stage[s] = "resolved"
             /\ pexec' = GroupCompleted(pexec, built.order, pexec.wave, T)
  /\ UNCHANGED <<stages, parallelExecution, built, pinit>>

\* the stages a step calls executeStage for
StartsOnExecute == Starting(BuildExecutionOrder(stages).order, 1)

StartsOnResumeStage ==
  IF pexec.pc # "stage" THEN {}
  ELSE IF GroupDone(built.order[pexec.wave], pexec.pos)
  THEN Starting(built.order, pexec.wave + 1)
  ELSE {built.order[pexec.wave][pexec.pos + 1]}

StartsOnResumeAll ==
  IF pexec.pc # "all" THEN {} ELSE Starting(built.order, pexec.wave + 1)

\* the ids cancelExecution is called with: the id execute() generated, and
\* an id no execution has
ExecutionIds == {"exec", "other"}

\* this.executions.get(executionId)
Known(id) == id = "exec" /\ pexec.status # "none"

\* a guard that cancels an execution whatever its status
CancellableAlways(x) == TRUE

\* cancelExecution line 339: execution.status === 'running'
Cancellable(x) == x.status = "running"

\* cancelExecution(executionId) lines 337-346; cancelCalls counts the calls,
\* cancelled the pipeline.execution.cancelled events
CancelExecution(id) ==
  /\ UNCHANGED pipeOthers
  /\ pexec.cancelCalls < MaxCancels
  /\ pexec' = IF Known(id) /\ Cancellable(pexec)
              THEN [pexec EXCEPT !.status = "cancelled", !.endTime = TRUE,
                                 !.cancelled = @ + 1, !.cancelCalls = @ + 1]
              ELSE [pexec EXCEPT !.cancelCalls = @ + 1]
  /\ UNCHANGED <<stages, parallelExecution, built, pinit>>

\* the pipelines with a short stage list
ShortPipeInit == PipeInit /\ Len(stages) <= MaxCancelStages

PipeSteps ==
  \/ \E T \in SUBSET StartsOnExecute : ExecutePipeline(T)
  \/ \E s \in 1..Len(stages), ok \in BOOLEAN : StageSettled(s, ok)
  \/ \E T \in SUBSET StartsOnResumeStage : ResumeStage(T)
  \/ \E T \in SUBSET StartsOnResumeAll : ResumeAll(T)

\* one execute() with cancelExecution calls
PipeCancelNext ==
  \/ PipeSteps
  \/ \E id \in ExecutionIds : CancelExecution(id)

PipeNext ==
  \/ Initialize
  \/ \E T \in SUBSET StartsOnExecute : ExecutePipeline(T)
  \/ \E s \in 1..Len(stages), ok \in BOOLEAN : StageSettled(s, ok)
  \/ \E T \in SUBSET StartsOnResumeStage : ResumeStage(T)
  \/ \E T \in SUBSET StartsOnResumeAll : ResumeAll(T)

\* ------------------------------------------------------------ StreamEventBus

\* two of the event types of StreamEventTypeSchema
EventTypes == {"tool.end", "system.error"}

\* what a filter looks at in the data of an event
EventData == {"x", "y"}

\* the filters passed to waitFor and replay: none, or event => data is "y"
Filters == {"none", "y"}

\* !filter || filter(event)
Passes(filter, event) == filter = "none" \/ event.data = filter

NoEvent == [id |-> 0, type |-> "none", data |-> "none"]

\* an emitStreamEvent call that has not been made
IdleEmit ==
  [pc |-> "idle", event |-> NoEvent, valid |-> TRUE, mw |-> 0, at |-> 0,
   threw |-> FALSE, ret |-> "pending"]

\* a waitFor call that has not been made
IdleWait ==
  [pc |-> "idle", type |-> "none", filter |-> "none", timer |-> FALSE,
   listening |-> FALSE, outcome |-> "pending", event |-> 0, settles |-> 0,
   firstMatch |-> 0]

\* the number of events pushed on the buffer so far
Appended == Cardinality({c \in DOMAIN ecalls : ecalls[c].at > 0})

\* while (eventBuffer.length > bufferSize) eventBuffer.shift()
RECURSIVE Trim(_)
Trim(buf) == IF Len(buf) > bufferSize THEN Trim(Tail(buf)) ELSE buf

\* addToBuffer(event)
AddToBuffer(buf, event) == Trim(Append(buf, event))

\* StreamEventSchema.parse(completeEvent) and what follows it up to the await
\* of processEventHandlers; at: the rank of the event among those buffered
Parsed(call) ==
  IF call.valid
  THEN [call EXCEPT !.pc = "handlers", !.at = Appended + 1]
  ELSE [call EXCEPT !.pc = "done", !.ret = "false"]

\* a bus that buffers the event whether or not it passed validation
BufferedAlways(call) == AddToBuffer(eventBuffer, call.event)

\* lines 745-754: addToBuffer is reached only when parse did not throw
Buffered(call) ==
  IF call.valid THEN AddToBuffer(eventBuffer, call.event) ELSE eventBuffer

\* the first event of the awaited type that passes the filter and is delivered
\* while the call is pending
Observe(wt, event) ==
  IF wt.pc = "waiting" /\ wt.type = event.type /\ Passes(wt.filter, event)
     /\ wt.firstMatch = 0
  THEN [wt EXCEPT !.firstMatch = event.id]
  ELSE wt

\* super.emit(type, event) as seen by the listener waitFor registered with
\* once(): the listener is removed, then the handler runs
Notify(wt, event) ==
  IF wt.listening /\ wt.type = event.type
  THEN IF Passes(wt.filter, event)
       THEN [wt EXCEPT !.listening = FALSE, !.timer = FALSE, !.pc = "done",
                       !.outcome = IF @ = "pending" THEN "resolved" ELSE @,
                       !.event = IF wt.outcome = "pending" THEN event.id ELSE @,
                       !.settles = @ + 1]
       ELSE [wt EXCEPT !.listening = FALSE]
  ELSE wt

\* the buses that are constructed
BusInit ==
  /\ bufferSize \in 1..MaxBufferSize
  /\ middlewares \in 0..MaxMiddlewares
  /\ eventHandlers \in {0, 1}
  /\ eventCounter = 0
  /\ eventBuffer = <<>>
  /\ ecalls = [c \in 1..MaxEmits |-> IdleEmit]
  /\ waits = [w \in 1..MaxWaiters |-> IdleWait]
  /\ delivered = <<>>
  /\ replayed = <<>>

\* a bus nobody uses
BusIdle ==
  /\ bufferSize = 1
  /\ middlewares = 0
  /\ eventHandlers = 0
  /\ eventCounter = 0
  /\ eventBuffer = <<>>
  /\ ecalls = <<>>
  /\ waits = <<>>
  /\ delivered = <<>>
  /\ replayed = <<>>

\* emitStreamEvent(event) up to its first suspension: the await of the first
\* middleware, or of processEventHandlers when there is no middleware
EmitStreamEvent(c, ty, d, valid) ==
  /\ UNCHANGED busOthers
  /\ ecalls[c].pc = "idle"
  /\ \A b \in 1..(c - 1) : ecalls[b].pc # "idle"
  /\ LET completeEvent == [id |-> eventCounter + 1, type |-> ty, data |-> d]
         call == [IdleEmit EXCEPT !.event = completeEvent, !.valid = valid]
     IN /\ eventCounter' = eventCounter + 1
        /\ IF middlewares > 0
           THEN /\ ecalls' = [ecalls EXCEPT ![c] = [call EXCEPT !.pc = "middleware",
                                                                !.mw = 1]]
                /\ UNCHANGED eventBuffer
           ELSE /\ ecalls' = [ecalls EXCEPT ![c] = Parsed(call)]
                /\ eventBuffer' = Buffered(call)
  /\ UNCHANGED <<bufferSize, middlewares, eventHandlers, waits, delivered, replayed>>

\* await middleware.process(type, event) settles; ok: it returned the event
MiddlewareSettled(c, ok) ==
  /\ UNCHANGED busOthers
  /\ ecalls[c].pc = "middleware"
  /\ IF ~ok
     THEN /\ ecalls' = [ecalls EXCEPT ![c].pc = "done", ![c].threw = TRUE,
                                      ![c].ret = "false"]
          /\ UNCHANGED eventBuffer
     ELSE IF ecalls[c].mw < middlewares
     THEN /\ ecalls' = [ecalls EXCEPT ![c].mw = @ + 1]
          /\ UNCHANGED eventBuffer
     ELSE /\ ecalls' = [ecalls EXCEPT ![c] = Parsed(ecalls[c])]
          /\ eventBuffer' = Buffered(ecalls[c])
  /\ UNCHANGED <<bufferSize, middlewares, eventHandlers, eventCounter, waits,
                 delivered, replayed>>

\* await processEventHandlers(event) resumes, the event goes to the listeners
\* and emitStreamEvent returns true. Without a handler the await takes one
\* turn of the microtask queue, so the calls resume in the order they suspended
HandlersSettled(c) ==
  /\ UNCHANGED busOthers
  /\ ecalls[c].pc = "handlers"
  /\ \/ eventHandlers > 0
     \/ \A b \in DOMAIN ecalls : ecalls[b].pc = "handlers" => ecalls[b].at >= ecalls[c].at
  /\ delivered' = Append(delivered, ecalls[c].event.id)
  /\ waits' = [w \in DOMAIN waits |-> Notify(Observe(waits[w], ecalls[c].event),
                                              ecalls[c].event)]
  /\ ecalls' = [ecalls EXCEPT ![c].pc = "done", ![c].ret = "true"]
  /\ UNCHANGED <<bufferSize, middlewares, eventHandlers, eventCounter, eventBuffer,
                 replayed>>

\* waitFor(eventType, timeout, filter); timeout: a timeout was passed
WaitFor(w, ty, timeout, filter) ==
  /\ UNCHANGED busOthers
  /\ waits[w].pc = "idle"
  /\ waits' = [waits EXCEPT ![w] = [IdleWait EXCEPT !.pc = "waiting", !.type = ty,
                                                    !.filter = filter,
                                                    !.timer = timeout,
                                                    !.listening = TRUE]]
  /\ UNCHANGED <<bufferSize, middlewares, eventHandlers, eventCounter, eventBuffer,
                 ecalls, delivered, replayed>>

\* the timer of waitFor fires: off(eventType, handler) and reject
WaitTimeout(w) ==
  /\ UNCHANGED busOthers
  /\ waits[w].timer
  /\ waits' = [waits EXCEPT ![w].timer = FALSE, ![w].listening = FALSE,
                            ![w].pc = "done",
                            ![w].outcome = IF @ = "pending" THEN "rejected" ELSE @,
                            ![w].settles = @ + 1]
  /\ UNCHANGED <<bufferSize, middlewares, eventHandlers, eventCounter, eventBuffer,
                 ecalls, delivered, replayed>>

\* replay(listener, filter)
Replay(filter) ==
  /\ UNCHANGED busOthers
  /\ LET events == SelectSeq(eventBuffer, LAMBDA e : Passes(filter, e))
     IN replayed' = [i \in 1..Len(events) |-> events[i].id]
  /\ UNCHANGED <<bufferSize, middlewares, eventHandlers, eventCounter, eventBuffer,
                 ecalls, waits, delivered>>

\* the steps of the emitStreamEvent calls made
EmitSteps ==
  \/ \E c \in 1..MaxEmits, ok \in BOOLEAN : MiddlewareSettled(c, ok)
  \/ \E c \in 1..MaxEmits : HandlersSettled(c)

\* emitStreamEvent calls and replays
BusNext ==
  \/ \E c \in 1..MaxEmits, ty \in EventTypes, d \in EventData, valid \in BOOLEAN :
       EmitStreamEvent(c, ty, d, valid)
  \/ EmitSteps
  \/ \E filter \in Filters : Replay(filter)

\* a few emitStreamEvent calls
DropNext ==
  \/ \E c \in 1..MaxDropEmits, ty \in EventTypes, valid \in BOOLEAN :
       EmitStreamEvent(c, ty, "x", valid)
  \/ EmitSteps

\* emitStreamEvent calls and waitFor calls
WaitNext ==
  \/ \E c \in 1..MaxWaitEmits, ty \in EventTypes, d \in EventData, valid \in BOOLEAN :
       EmitStreamEvent(c, ty, d, valid)
  \/ EmitSteps
  \/ \E w \in 1..MaxWaiters, ty \in EventTypes, timeout \in BOOLEAN, filter \in Filters :
       WaitFor(w, ty, timeout, filter)
  \/ \E w \in 1..MaxWaiters : WaitTimeout(w)

\* ------------------------------------------------------------ ComposableAgent

\* task.priority: <<>> for a task without one
TaskPriorities == {<<>>, <<-1>>, <<1>>}

\* (task.priority || 0)
PriorityOrZero(p) == IF p = <<>> THEN 0 ELSE p[1]

IdleStart == [pc |-> "idle", ret |-> 0]

NewTask ==
  [pc |-> "new", via |-> "none", priority |-> <<>>, session |-> 0, handed |-> 0,
   dispatched |-> 0, events |-> <<>>, outcome |-> "pending", err |-> "none"]

NewSession == [endTime |-> FALSE, ended |-> FALSE, taskHistory |-> <<>>]

\* an agent after its constructor: no session, an empty queue
AgentInit ==
  /\ currentSession = 0
  /\ sessions = <<>>
  /\ taskQueue = <<>>
  /\ isProcessing = FALSE
  /\ scalls = [c \in 1..MaxStarts |-> IdleStart]
  /\ tasks = [i \in 1..MaxTasks |-> NewTask]
  /\ drains = <<>>

\* an agent whose first startSession() has returned
SessionOpen ==
  /\ currentSession = 1
  /\ sessions = <<NewSession>>
  /\ taskQueue = <<>>
  /\ isProcessing = FALSE
  /\ scalls = <<>>
  /\ tasks = [i \in 1..MaxTasks |-> NewTask]
  /\ drains = <<>>

\* an agent nobody uses
AgentIdle ==
  /\ currentSession = 0
  /\ sessions = <<>>
  /\ taskQueue = <<>>
  /\ isProcessing = FALSE
  /\ scalls = <<>>
  /\ tasks = <<>>
  /\ drains = <<>>

\* endSession lines 134-139: endTime stamped, agent.session.ended emitted
Ended(ss, cur) == [ss EXCEPT ![cur].endTime = TRUE, ![cur].ended = TRUE]

\* startSession lines 105-123 for the call c: a new session becomes the
\* current one and its id is returned
OpenSession(c) ==
  /\ sessions' = Append(sessions, NewSession)
  /\ currentSession' = Len(sessions) + 1
  /\ scalls' = [scalls EXCEPT ![c] = [pc |-> "done", ret |-> Len(sessions) + 1]]

\* startSession(userId, context) up to its first suspension: with an open
\* session it runs endSession and suspends in the await of line 102,
\* otherwise it runs to its end
StartSession(c) ==
  /\ UNCHANGED agentOthers
  /\ scalls[c].pc = "idle"
  /\ \A d \in 1..(c - 1) : scalls[d].pc # "idle"
  /\ IF currentSession # 0 /\ ~sessions[currentSession].endTime
     THEN /\ sessions' = Ended(sessions, currentSession)
          /\ currentSession' = 0
          /\ scalls' = [scalls EXCEPT ![c].pc = "ending"]
     ELSE OpenSession(c)
  /\ UNCHANGED <<taskQueue, isProcessing, tasks, drains>>

\* startSession resumes after `await this.endSession()`
StartSessionResumed(c) ==
  /\ UNCHANGED agentOthers
  /\ scalls[c].pc = "ending"
  /\ OpenSession(c)
  /\ UNCHANGED <<taskQueue, isProcessing, tasks, drains>>

\* endSession() lines 129-143 with a current session (without one it returns)
EndSession ==
  /\ UNCHANGED agentOthers
  /\ currentSession # 0
  /\ sessions' = Ended(sessions, currentSession)
  /\ currentSession' = 0
  /\ UNCHANGED <<taskQueue, isProcessing, scalls, tasks, drains>>

\* a guard that lets executeTask run without a session
NoSessionIgnored(cur) == FALSE

\* executeTask line 149: if (!this.currentSession)
NoSession(cur) == cur = 0

\* executeTask(task) lines 148-169 up to its first suspension: it throws
\* without a session, otherwise it dispatches the capability request and
\* suspends in the await of line 169
Executing(t) ==
  IF NoSession(currentSession)
  THEN [t EXCEPT !.pc = "done", !.handed = @ + 1,
                 !.outcome = "rejected", !.err = "nosession"]
  ELSE [t EXCEPT !.pc = "running", !.handed = @ + 1, !.session = currentSession,
                 !.dispatched = @ + 1]

\* agent.executeTask(task) called from outside the agent
ExecuteTask(i, p) ==
  /\ UNCHANGED agentOthers
  /\ tasks[i].pc = "new"
  /\ \A j \in 1..(i - 1) : tasks[j].pc # "new"
  /\ tasks' = [tasks EXCEPT ![i] =
                 Executing([@ EXCEPT !.via = "direct", !.priority = p])]
  /\ UNCHANGED <<currentSession, sessions, taskQueue, isProcessing, scalls, drains>>

\* executeTask lines 169-190 and 191-210: the executor's response arrives (the
\* executor never rejects); the result is pushed to the history of
\* this.currentSession and agent.task.completed is emitted.  Without a
\* current session line 181 throws a TypeError, and so does line 199 of the
\* catch block: executeTask rejects.
ExecuteTaskResumed(i, ok) ==
  /\ UNCHANGED agentOthers
  /\ tasks[i].pc = "running"
  /\ IF currentSession = 0
     THEN /\ tasks' = [tasks EXCEPT ![i] =
                         [@ EXCEPT !.pc = "done", !.outcome = "rejected",
                                   !.err = "internal"]]
          /\ UNCHANGED sessions
     ELSE /\ tasks' = [tasks EXCEPT ![i] =
                         [@ EXCEPT !.pc = "done", !.outcome = "resolved",
                                   !.events = Append(@, "completed")]]
          /\ sessions' = [sessions EXCEPT ![currentSession].taskHistory =
                            Append(@, i)]
  /\ UNCHANGED <<currentSession, taskQueue, isProcessing, scalls, drains>>

\* the comparator ascending-priority code would pass to sort
CompareTasksAscending(ts, a, b) ==
  PriorityOrZero(ts[a].priority) - PriorityOrZero(ts[b].priority)

\* processQueue line 240: (a, b) => (b.priority || 0) - (a.priority || 0)
CompareTasks(ts, a, b) ==
  PriorityOrZero(ts[b].priority) - PriorityOrZero(ts[a].priority)

\* Array.prototype.sort is stable
RECURSIVE InsertTask(_, _, _)
InsertTask(ts, sorted, x) ==
  IF sorted = <<>> THEN <<x>>
  ELSE IF CompareTasks(ts, Head(sorted), x) > 0 THEN <<x>> \o sorted
  ELSE <<Head(sorted)>> \o InsertTask(ts, Tail(sorted), x)

RECURSIVE SortTasks(_, _)
SortTasks(ts, q) ==
  IF q = <<>> THEN <<>>
  ELSE InsertTask(ts, SortTasks(ts, SubSeq(q, 1, Len(q) - 1)), q[Len(q)])

\* a guard that lets a second loop start while one is running
BusyNever(flag) == FALSE

\* processQueue line 231: this.isProcessing
Busy(flag) == flag

\* processQueue lines 238-243: the queue q is sorted, its head is shifted and
\* executeTask is called for it; the loop suspends in the await of line 243
TakeNext(ts, q, loops) ==
  LET sorted == SortTasks(ts, q)
      i == Head(sorted)
  IN /\ taskQueue' = Tail(sorted)
     /\ tasks' = [ts EXCEPT ![i] = Executing(@)]
     /\ drains' = Append(loops, i)

\* queueTask(task) lines 216-225 with the synchronous part of processQueue
\* (lines 230-243): the task is pushed, agent.task.queued is emitted, and a
\* loop starts unless one is running
QueueTask(i, p) ==
  /\ UNCHANGED agentOthers
  /\ tasks[i].pc = "new"
  /\ \A j \in 1..(i - 1) : tasks[j].pc # "new"
  /\ LET ts == [tasks EXCEPT ![i] =
                  [@ EXCEPT !.pc = "queued", !.via = "queue", !.priority = p,
                            !.events = Append(@, "queued")]]
         q == Append(taskQueue, i)
     IN IF Busy(isProcessing)
        THEN /\ tasks' = ts
             /\ taskQueue' = q
             /\ UNCHANGED <<isProcessing, drains>>
        ELSE /\ isProcessing' = TRUE
             /\ TakeNext(ts, q, drains)
  /\ UNCHANGED <<currentSession, sessions, scalls>>

\* processQueue lines 238-247 resumes after `await this.executeTask(task)`: a
\* rejection leaves the loop through the finally block, otherwise the loop
\* takes the next task or ends
DrainResumed(k) ==
  /\ UNCHANGED agentOthers
  /\ k \in DOMAIN drains
  /\ tasks[drains[k]].outcome # "pending"
  /\ IF tasks[drains[k]].outcome = "rejected" \/ taskQueue = <<>>
     THEN /\ isProcessing' = FALSE
          /\ drains' = RemoveAt(drains, k)
          /\ UNCHANGED <<taskQueue, tasks>>
     ELSE /\ TakeNext(tasks, taskQueue, RemoveAt(drains, k))
          /\ UNCHANGED isProcessing
  /\ UNCHANGED <<currentSession, sessions, scalls>>

SessionSteps ==
  \/ \E c \in 1..MaxStarts : StartSession(c)
  \/ \E c \in 1..MaxStarts : StartSessionResumed(c)
  \/ EndSession

\* sessions and executeTask() calls made from outside
SessionNext ==
  \/ SessionSteps
  \/ \E i \in 1..MaxDirect : ExecuteTask(i, <<>>)
  \/ \E i \in 1..MaxDirect, ok \in BOOLEAN : ExecuteTaskResumed(i, ok)

\* the queue of an agent with a session
QueueNext ==
  \/ \E i \in 1..MaxTasks, p \in TaskPriorities : QueueTask(i, p)
  \/ \E i \in 1..MaxTasks, ok \in BOOLEAN : ExecuteTaskResumed(i, ok)
  \/ \E k \in 1..MaxTasks : DrainResumed(k)
  \/ EndSession

\* startSession, endSession and queueTask calls on a new agent
AgentNext ==
  \/ \E c \in 1..MaxQueueStarts : StartSession(c)
  \/ \E c \in 1..MaxQueueStarts : StartSessionResumed(c)
  \/ EndSession
  \/ \E i \in 1..MaxTasks, ok \in BOOLEAN : ExecuteTaskResumed(i, ok)
  \/ \E i \in 1..MaxTasks, p \in TaskPriorities : QueueTask(i, p)
  \/ \E k \in 1..MaxTasks : DrainResumed(k)

\* ------------------------------------------------------------ wave claims

\* two stages of the list have the same id
DuplicateId(sts) ==
  \E i, j \in 1..Len(sts) : i # j /\ sts[i].id = sts[j].id

\* a stage names a dependency that is the id of no stage of the list
UnknownDependency(sts) ==
  \E i \in 1..Len(sts) : sts[i].dependencies \ {sts[j].id : j \in 1..Len(sts)} # {}

\* some stages each depend on one of themselves: the dependencies have a cycle
Cyclic(sts) ==
  \E S \in SUBSET (1..Len(sts)) :
    /\ S # {}
    /\ \A i \in S : \E j \in S : sts[j].id \in sts[i].dependencies

WellFormed(sts) == ~DuplicateId(sts) /\ ~UnknownDependency(sts) /\ ~Cyclic(sts)

\* the stages of wave k, as positions in the list and as ids
WaveStages(order, k) == Range(order[k])

WaveIds(sts, order, k) == {sts[i].id : i \in WaveStages(order, k)}

WaveSets(sts, order) == [k \in 1..Len(order) |-> WaveIds(sts, order, k)]

\* the ids of the stages in the waves before wave k
Earlier(sts, order, k) == UNION {WaveIds(sts, order, h) : h \in 1..(k - 1)}

Permute(sts, p) == [i \in 1..Len(sts) |-> sts[p[i]]]

Diamond ==
  {[id |-> "A", dependencies |-> {}, optional |-> FALSE],
   [id |-> "B", dependencies |-> {"A"}, optional |-> FALSE],
   [id |-> "C", dependencies |-> {"A"}, optional |-> FALSE],
   [id |-> "D", dependencies |-> {"B", "C"}, optional |-> FALSE]}

\* C8: for an acyclic stage list buildExecutionOrder puts each stage in exactly
\* one wave, wave k being exactly the stages not scheduled before whose
\* dependencies all lie in earlier waves; the partition does not depend on the
\* order of the list; for the diamond A, B(A), C(A), D(B,C) the waves are
\* [[A],[B,C],[D]].
C8_Waves ==
  (built.done /\ WellFormed(stages)) =>
    /\ ~built.thrown
    /\ \A i \in 1..Len(stages) :
         Cardinality({k \in 1..Len(built.order) : i \in WaveStages(built.order, k)}) = 1
    /\ \A k \in 1..Len(built.order) :
         /\ Len(built.order[k]) = Cardinality(WaveStages(built.order, k))
         /\ WaveStages(built.order, k) =
              {i \in 1..Len(stages) :
                 /\ stages[i].id \notin Earlier(stages, built.order, k)
                 /\ stages[i].dependencies \subseteq Earlier(stages, built.order, k)}
    /\ \A p \in Permutations(1..Len(stages)) :
         LET other == Permute(stages, p)
         IN WaveSets(other, BuildExecutionOrder(other).order)
              = WaveSets(stages, built.order)
    /\ (Range(stages) = Diamond /\ Len(stages) = 4) =>
         WaveSets(stages, built.order) = <<{"A"}, {"B", "C"}, {"D"}>>

\* the waves of the diamond were built from the list D, C, B, A
C8_Witness ==
  /\ built.done
  /\ Range(stages) = Diamond
  /\ <<stages[1].id, stages[2].id, stages[3].id, stages[4].id>> = <<"D", "C", "B", "A">>
  /\ WaveSets(stages, built.order) = <<{"A"}, {"B", "C"}, {"D"}>>

\* ------------------------------------------------------------ execution claims

\* the stages for which executeStage has been called
StartedStages == {s \in DOMAIN pexec.stage : pexec.stage[s] # "idle"}

\* C9: a pipeline with a duplicate stage id, a dependency on a stage that does
\* not exist, or a dependency cycle is rejected with an error and none of its
\* stages is ever started, whichever of initialize() and execute() is called
\* first: execute() rejects before it starts a stage, and initialize() rejects
\* a duplicate id and an unknown dependency.
C9_Rejected ==
  (DuplicateId(stages) \/ UnknownDependency(stages) \/ Cyclic(stages)) =>
    /\ StartedStages = {}
    /\ pexec.stageResults = [id \in StageIds |-> "none"]
    /\ pexec.status \in {"none", "failed"}
    /\ pexec.status = "failed" => pexec.outcome = "rejected" /\ pexec.error # "none"
    /\ (pinit # "none" /\ (DuplicateId(stages) \/ UnknownDependency(stages)))
         => pinit = "rejected"

\* initialize() accepted a pipeline with a dependency cycle, and execute() then
\* rejected it
C9_Witness ==
  /\ Cyclic(stages)
  /\ ~DuplicateId(stages)
  /\ ~UnknownDependency(stages)
  /\ Len(stages) = 3
  /\ pinit = "ok"
  /\ pexec.status = "failed"
  /\ pexec.error = "circular"

\* the wave a stage was placed in
WaveOf(s) == CHOOSE k \in 1..Len(built.order) : s \in WaveStages(built.order, k)

\* C10: with parallelExecution on or off, no stage of wave N+1 starts before
\* every stage of wave N has finished or failed; with parallelExecution off
\* the stages of a wave run one at a time in list order.
C10_WaveBarrier ==
  \A b \in StartedStages :
    /\ \A a \in 1..Len(stages) :
         WaveOf(a) < WaveOf(b) => a \in pexec.settledAt[b]
    /\ ~parallelExecution =>
         /\ pexec.inflightAt[b] = {}
         /\ \A a \in 1..Len(stages) :
              (WaveOf(a) = WaveOf(b) /\ a < b) => a \in pexec.settledAt[b]

\* with parallelExecution on, the stage of the second wave was started after
\* the two stages of the first wave, in flight together, had both settled
C10_Witness ==
  /\ parallelExecution
  /\ built.done
  /\ Len(built.order) = 2
  /\ Len(built.order[1]) = 2
  /\ \E a \in WaveStages(built.order, 1) :
       pexec.inflightAt[a] = WaveStages(built.order, 1) \ {a}
  /\ \E b \in WaveStages(built.order, 2) :
       /\ b \in StartedStages
       /\ pexec.settledAt[b] = WaveStages(built.order, 1)

\* the optional and the non-optional stages that threw
OptionalThrown == {s \in pexec.threw : stages[s].optional}

RequiredThrown == {s \in pexec.threw : ~stages[s].optional}

\* C11: when an optional stage throws, the stage-result map records the error
\* under its id, the execution is not aborted (it fails only when a
\* non-optional stage threw), the other stages still run, and when no
\* non-optional stage threw the execution ends with status completed after
\* every stage has run.
C11_OptionalTolerated ==
  (pexec.status # "none" /\ ~built.thrown) =>
    /\ \A s \in OptionalThrown :
         /\ pexec.stage[s] = "resolved"
         /\ pexec.stageResults[stages[s].id] = "error"
    /\ pexec.status = "failed" => RequiredThrown # {}
    /\ (pexec.pc = "done" /\ RequiredThrown = {}) =>
         /\ pexec.status = "completed"
         /\ pexec.outcome = "resolved"
         /\ \A s \in 1..Len(stages) : pexec.stage[s] = "resolved"

\* an optional stage threw, a stage that does not depend on it was started
\* after that and returned a result, and the execution completed
C11_Witness ==
  /\ pexec.status = "completed"
  /\ \E s \in OptionalThrown : \E b \in StartedStages :
       /\ s \in pexec.settledAt[b]
       /\ stages[s].id \notin stages[b].dependencies
       /\ pexec.stageResults[stages[b].id] = "result"

\* C12: when a non-optional stage fails, the execution ends with status failed
\* and the error recorded on the execution object, and the promise of execute
\* is rejected; no stage of a later wave is started, and with parallelExecution
\* off no later stage of the same wave is started.
C12_Aborted ==
  RequiredThrown # {} =>
    /\ pexec.status # "completed"
    /\ pexec.pc = "done" =>
         /\ pexec.status = "failed"
         /\ pexec.error = "stage"
         /\ pexec.outcome = "rejected"
    /\ \A f \in RequiredThrown, b \in StartedStages :
         /\ WaveOf(b) <= WaveOf(f)
         /\ (~parallelExecution /\ WaveOf(b) = WaveOf(f)) => b <= f

\* with parallelExecution off, the first of two stages of a wave failed, the
\* execution has failed and the second stage was never started
C12_Witness ==
  /\ ~parallelExecution
  /\ pexec.status = "failed"
  /\ pexec.error = "stage"
  /\ \E f \in RequiredThrown : \E b \in 1..Len(stages) :
       /\ WaveOf(b) = WaveOf(f)
       /\ f < b
       /\ pexec.stage[b] = "idle"

\* ------------------------------------------------------------ event bus claims

\* the ids of the valid events emitted so far: those pushed on the buffer
EmittedIds ==
  {ecalls[c].event.id : c \in {b \in DOMAIN ecalls : ecalls[b].at > 0}}

\* the ids of a set in emission order: ids are generated in the order of the
\* emitStreamEvent calls
RECURSIVE Ascending(_)
Ascending(S) ==
  IF S = {} THEN <<>>
  ELSE LET m == CHOOSE x \in S : \A y \in S : x <= y
       IN <<m>> \o Ascending(S \ {m})

\* the last n elements of a sequence
LastOf(seq, n) == SubSeq(seq, Len(seq) - n + 1, Len(seq))

Min(a, b) == IF a < b THEN a ELSE b

BufferIds == [i \in 1..Len(eventBuffer) |-> eventBuffer[i].id]

IsAscending(seq) == \A i, j \in 1..Len(seq) : i < j => seq[i] < seq[j]

\* the buffer holds at most bufferSize events, and exactly the last
\* min(M, bufferSize) of the M valid events emitted, in emission order
C13_Retained ==
  /\ Len(eventBuffer) <= bufferSize
  /\ BufferIds = LastOf(Ascending(EmittedIds),
                        Min(Cardinality(EmittedIds), bufferSize))

\* replay without a filter delivers the buffered events in buffer order and
\* leaves the buffer as it is
C13_Replayed ==
  Replay("none") => (replayed' = BufferIds /\ eventBuffer' = eventBuffer)

\* C13: the event buffer never holds more than bufferSize events; after M valid
\* events have been emitted it holds exactly the last min(M, bufferSize) of
\* them in emission order, and replay without a filter delivers exactly those
\* events in that order without modifying the buffer.
C13_RingBuffer == [](C13_Retained) /\ [][C13_Replayed]_vars

\* C14: when several emitStreamEvent calls are in flight at once, the events
\* appear in the buffer and are delivered to the listeners in the order in
\* which emitStreamEvent was called, the order of their generated ids.
C14_EmissionOrder == IsAscending(BufferIds) /\ IsAscending(delivered)

\* C15: waitFor(type, timeout, filter) resolves with the first event of that
\* type passing the filter that is delivered while the call is pending, also
\* when earlier events of that type did not pass it; it rejects only when no
\* such event was delivered before the timeout; resolve and reject are not
\* both called.
C15_FirstMatch ==
  \A w \in DOMAIN waits :
    /\ waits[w].firstMatch # 0 =>
         (waits[w].outcome = "resolved" /\ waits[w].event = waits[w].firstMatch)
    /\ waits[w].outcome = "resolved" => waits[w].event = waits[w].firstMatch
    /\ waits[w].outcome = "rejected" => waits[w].firstMatch = 0
    /\ waits[w].settles <= 1

\* what a cancelExecution call does to the execution: an execution that is
\* running is cancelled and its end time stamped, anything else is left as
\* it is and no event is emitted
C30_Effect ==
  \A id \in ExecutionIds :
    CancelExecution(id) =>
      /\ pexec' = IF id = "exec" /\ pexec.status = "running"
                  THEN [pexec EXCEPT !.status = "cancelled", !.endTime = TRUE,
                                     !.cancelled = @ + 1, !.cancelCalls = @ + 1]
                  ELSE [pexec EXCEPT !.cancelCalls = @ + 1]
      /\ UNCHANGED <<stages, parallelExecution, built, pinit>>

\* an execution becomes cancelled, and the cancelled event is emitted, only in
\* a cancelExecution call on a running execution
C30_OnlyRunning ==
  (pexec'.cancelled # pexec.cancelled
     \/ (pexec'.status = "cancelled" /\ pexec.status # "cancelled"))
    => /\ pexec.status = "running"
       /\ pexec'.status = "cancelled"
       /\ pexec'.endTime
       /\ pexec'.cancelled = pexec.cancelled + 1
       /\ pexec'.cancelCalls = pexec.cancelCalls + 1

\* C30: cancelExecution(id) changes an execution only when its status is
\* running, setting the status to cancelled and stamping the end time; for an
\* unknown id or an execution that is pending, completed, failed or already
\* cancelled it changes nothing and emits no event.
C30_CancelRunning == [][C30_Effect /\ C30_OnlyRunning]_vars

\* a running execution was cancelled, and a second cancelExecution left it
\* as it was
C30_Witness ==
  /\ pexec.status = "cancelled"
  /\ pexec.endTime
  /\ pexec.cancelled = 1
  /\ pexec.cancelCalls = 2
  /\ pexec.pc # "done"

\* C34: the execution statuses completed, failed and cancelled are terminal:
\* once an execution's status is one of them it never changes again; in
\* particular an execution cancelled while its stages are in flight does not
\* later become completed or failed.
C34_Terminal ==
  [][pexec.status \in {"completed", "failed", "cancelled"}
       => pexec'.status = pexec.status]_vars

\* C35: after cancelExecution has set an execution to cancelled, no stage of
\* that execution that had not yet started is started.
C35_NoneStarted ==
  [][pexec.cancelled > 0
       => \A s \in DOMAIN pexec.stage :
            pexec.stage[s] = "idle" => pexec'.stage[s] = "idle"]_vars

FailedEmits ==
  {c \in DOMAIN ecalls :
     /\ ecalls[c].pc = "done"
     /\ ecalls[c].threw \/ (~ecalls[c].valid /\ ecalls[c].mw = middlewares)}

\* C31: an event that fails shape validation, or for which a middleware
\* throws, is not appended to the buffer and is not delivered to any
\* subscriber or listener, and emit reports the failure to its caller: it
\* returns false.
C31_Dropped ==
  \A c \in DOMAIN ecalls :
    /\ c \in FailedEmits =>
         /\ ecalls[c].ret = "false"
         /\ ecalls[c].at = 0
         /\ \A i \in 1..Len(eventBuffer) : eventBuffer[i].id # ecalls[c].event.id
         /\ \A i \in 1..Len(delivered) : delivered[i] # ecalls[c].event.id
    /\ ecalls[c].ret = "false" => c \in FailedEmits

\* one emitStreamEvent returned false because a middleware threw, another
\* because its event was invalid after the middlewares had passed it
C31_Witness ==
  /\ \E c \in FailedEmits : ecalls[c].threw
  /\ \E c \in FailedEmits : ~ecalls[c].threw /\ ecalls[c].mw > 0

\* ------------------------------------------------------------ agent claims

\* executeTask is called for task i in this step
ExecuteTaskCalled(i) == tasks'[i].handed = tasks[i].handed + 1

\* an executeTask called without a session rejects with the no-active-session
\* error in that step, dispatches nothing, emits nothing and leaves the
\* sessions as they are
C25_Rejects ==
  \A i \in DOMAIN tasks :
    (ExecuteTaskCalled(i) /\ currentSession = 0)
      => /\ tasks'[i].outcome = "rejected" /\ tasks'[i].err = "nosession"
         /\ tasks'[i].dispatched = tasks[i].dispatched
         /\ tasks'[i].via = "direct" => tasks'[i].events = <<>>
         /\ UNCHANGED <<sessions, currentSession>>

\* such a call never dispatches, emits or records anything later either
C25_NoTrace ==
  \A i \in DOMAIN tasks :
    tasks[i].err = "nosession" =>
      /\ tasks[i].dispatched = 0
      /\ tasks[i].outcome = "rejected"
      /\ "completed" \notin Range(tasks[i].events)
      /\ \A k \in DOMAIN sessions : i \notin Range(sessions[k].taskHistory)

\* C25: executeTask called when no session is open fails with a
\* no-active-session error without dispatching any capability request,
\* without emitting a task event, and without changing any session's history.
C25_NoSession == [](C25_NoTrace) /\ [][C25_Rejects]_vars

\* executeTask was called after the only session had ended with a task in its
\* history, and was rejected
C25_Witness ==
  /\ Len(sessions) = 1 /\ sessions[1].endTime
  /\ sessions[1].taskHistory = <<1>>
  /\ currentSession = 0
  /\ tasks[2].via = "direct"
  /\ tasks[2].err = "nosession"

\* the sessions that were started and not ended
OpenSessions == {k \in DOMAIN sessions : ~sessions[k].endTime}

\* a startSession call creates its session when every earlier one has been
\* ended, with its end time and its event, and the id it returns is the
\* current session
C26_EndsFirst ==
  /\ Len(sessions') > Len(sessions) =>
       \A k \in DOMAIN sessions : sessions[k].endTime /\ sessions[k].ended
  /\ \A c \in DOMAIN scalls :
       (scalls[c].pc # "done" /\ scalls'[c].pc = "done")
         => /\ scalls'[c].ret = currentSession'
            /\ scalls'[c].ret = Len(sessions')

\* C26: an agent has at most one open session at any time: startSession
\* called while a session is open first ends that session (stamping its
\* endTime and emitting the session-ended event) before the new session is
\* created, and the id it returns is the id of the now-current session.
C26_OneSession ==
  /\ [](Cardinality(OpenSessions) <= 1)
  /\ [](currentSession # 0 => OpenSessions = {currentSession})
  /\ [][C26_EndsFirst]_vars

\* the tasks taken from the queue whose executeTask is in flight
Draining == {i \in DOMAIN tasks : tasks[i].via = "queue" /\ tasks[i].pc = "running"}

C27_OneLoop ==
  /\ Len(drains) <= 1
  /\ isProcessing = (drains # <<>>)
  /\ Cardinality(Draining) <= 1
  /\ Draining \subseteq Range(drains)

\* a queueTask made while a loop is running only enqueues
C27_OnlyEnqueues ==
  \A i \in DOMAIN tasks :
    (tasks[i].pc = "new" /\ tasks'[i].via = "queue" /\ isProcessing)
      => /\ taskQueue' = Append(taskQueue, i)
         /\ tasks'[i].pc = "queued"
         /\ tasks'[i].handed = 0
         /\ UNCHANGED <<drains, isProcessing>>

\* C27: at most one queue-drain loop is active per agent at any time:
\* queueTask calls made while a drain is in progress only enqueue, so tasks
\* taken from the queue are executed one at a time and never two concurrently.
C27_SingleDrain == [](C27_OneLoop) /\ [][C27_OnlyEnqueues]_vars

\* two tasks were queued while the loop was awaiting the first
C27_Witness ==
  /\ isProcessing
  /\ drains = <<1>>
  /\ tasks[1].pc = "running"
  /\ Len(taskQueue) = 2

\* the tasks waiting in the queue
Waiting == {i \in DOMAIN tasks : tasks[i].pc = "queued"}

\* the loop takes task i from the queue in this step
Taken(i) ==
  /\ tasks'[i].via = "queue"
  /\ tasks[i].pc \in {"new", "queued"}
  /\ tasks'[i].pc \notin {"new", "queued"}

\* the task taken has the highest priority of the queue, and among those of
\* that priority it is the one queued first (tasks are numbered in the order
\* of their queueTask calls)
C28_TakesBest ==
  \A i \in DOMAIN tasks :
    Taken(i) =>
      /\ \A j \in Waiting' :
           \/ PriorityOrZero(tasks'[j].priority) < PriorityOrZero(tasks'[i].priority)
           \/ /\ PriorityOrZero(tasks'[j].priority) = PriorityOrZero(tasks'[i].priority)
              /\ i < j
      /\ Waiting' = (Waiting \cup {j \in DOMAIN tasks : tasks'[j].pc = "queued"}) \ {i}

\* the queue holds the waiting tasks, each once
C28_Queue ==
  /\ Range(taskQueue) = Waiting
  /\ Len(taskQueue) = Cardinality(Waiting)

\* C28: each time the drain loop takes a task, it takes one whose priority is
\* maximal among all tasks in the queue at that moment (a missing priority
\* counts as 0), so a task queued during the drain with a higher priority
\* than the waiting ones runs before them; tasks of equal priority run in the
\* order they were queued.
C28_PriorityOrder == [](C28_Queue) /\ [][C28_TakesBest]_vars

\* task 3, queued during the drain with priority 1, was taken while task 2,
\* queued before it without a priority, is still waiting
C28_Witness ==
  /\ tasks[2].pc = "queued" /\ tasks[2].priority = <<>>
  /\ tasks[3].pc = "running" /\ tasks[3].priority = <<1>>
  /\ tasks[1].pc = "done" /\ tasks[1].via = "queue"

\* the agent is at rest: no loop, no call in flight
AtRest ==
  /\ drains = <<>>
  /\ \A i \in DOMAIN tasks : tasks[i].pc # "running"
  /\ \A c \in DOMAIN scalls : scalls[c].pc # "ending"

\* C29: for every sequence of startSession, endSession and queueTask calls,
\* every task passed to queueTask is eventually handed to executeTask exactly
\* once and yields a task result, and once no more tasks are queued the queue
\* becomes empty and isProcessing returns to false (assuming every capability
\* call terminates).  Stated for the agent at rest, where nothing is left that
\* could hand a task over.
C29_Drained ==
  /\ \A i \in DOMAIN tasks : tasks[i].via = "queue" => tasks[i].handed <= 1
  /\ AtRest =>
       /\ taskQueue = <<>>
       /\ ~isProcessing
       /\ \A i \in DOMAIN tasks :
            tasks[i].via = "queue" =>
              /\ tasks[i].handed = 1
              /\ tasks[i].outcome = "resolved"

\* the number of times the result of task i is in the history of session k
TimesIn(k, i) ==
  Cardinality({n \in 1..Len(sessions[k].taskHistory) : sessions[k].taskHistory[n] = i})

\* C37: the result of an executeTask call is appended exactly once to the task
\* history of the session that was open when the call started, also when
\* endSession or startSession is called while the capability call is in
\* flight; it is never appended to a different session's history, and the
\* call does not fail with an internal error because the session changed.
C37_OwnSession ==
  \A i \in DOMAIN tasks :
    /\ (tasks[i].pc = "done" /\ tasks[i].session # 0)
         => /\ tasks[i].outcome = "resolved"
            /\ TimesIn(tasks[i].session, i) = 1
    /\ \A k \in DOMAIN sessions : k # tasks[i].session => TimesIn(k, i) = 0

\* ------------------------------------------------------------ specifications

InitPool == PoolInit /\ DIIdle /\ CapIdle /\ PipeIdle /\ BusIdle /\ AgentIdle

InitDI == DIInit /\ PoolIdle /\ CapIdle /\ PipeIdle /\ BusIdle /\ AgentIdle

\* a container in which registerFactory() was called for A and B only: C, where
\* a dependency list names it, is a service that is not found
InitDIPair == InitDI /\ services["C"] = Unregistered

InitCap == CapInit /\ PoolIdle /\ DIIdle /\ PipeIdle /\ BusIdle /\ AgentIdle

InitMulti == MultiInit /\ PoolIdle /\ DIIdle /\ PipeIdle /\ BusIdle /\ AgentIdle

\* the registry with executeWithMultiple calls in sequential mode
SpecSequential == InitMulti /\ [][SequentialNext]_vars

InitOrder == OrderInit /\ PoolIdle /\ DIIdle /\ CapIdle /\ BusIdle /\ AgentIdle

InitPipe == PipeInit /\ PoolIdle /\ DIIdle /\ CapIdle /\ BusIdle /\ AgentIdle

InitCancel == ShortPipeInit /\ PoolIdle /\ DIIdle /\ CapIdle /\ BusIdle /\ AgentIdle

InitBus == BusInit /\ PoolIdle /\ DIIdle /\ CapIdle /\ PipeIdle /\ AgentIdle

InitAgent == AgentInit /\ PoolIdle /\ DIIdle /\ CapIdle /\ PipeIdle /\ BusIdle

\* a pool just constructed, or one whose first resource a caller holds
InitPoolLive == InitPool /\ inUse \subseteq {1}

\* the pool with cleanup(), where whatever is awaited settles
SpecPoolLive == InitPoolLive /\ [][PoolLiveNext]_vars /\ PoolFair

\* the pool without its background sweep
SpecPool == InitPool /\ [][PoolNext]_vars

\* the pool with the sweep interleaved with the acquire and release calls
SpecPoolSweep == InitPool /\ [][PoolSweepNext]_vars

\* the pool with cleanup() interleaved with the acquire and release calls
SpecPoolCleanup == InitPool /\ [][PoolCleanupNext]_vars

\* the container
SpecDI == InitDI /\ [][DINext]_vars

\* the container with one resolve() call in flight at a time
SpecDISolo == InitDI /\ [][DISoloNext]_vars

\* the container with two registered tokens
SpecDIPair == InitDIPair /\ [][DINext]_vars

\* the capability registry and executor
SpecCap == InitCap /\ [][CapNext]_vars

\* the executor's executeWithMultiple
SpecMulti == InitMulti /\ [][MultiNext]_vars

\* buildExecutionOrder on its own
SpecOrder == InitOrder /\ [][BuildOrder]_vars

\* the pipeline: initialize() and one execute()
SpecPipe == InitPipe /\ [][PipeNext]_vars

\* the pipeline: one execute() and cancelExecution calls
SpecCancel == InitCancel /\ [][PipeCancelNext]_vars

\* the event bus: its buffer and its listeners
SpecBus == InitBus /\ [][BusNext]_vars

\* the event bus with events that are dropped
SpecDrop == InitBus /\ [][DropNext]_vars

\* the event bus: waitFor
SpecWait == InitBus /\ [][WaitNext]_vars

InitQueue == SessionOpen /\ PoolIdle /\ DIIdle /\ CapIdle /\ PipeIdle /\ BusIdle

\* the agent's sessions and its executeTask
SpecSession == InitAgent /\ [][SessionNext]_vars

\* the agent's queue, from an open session
SpecQueue == InitQueue /\ [][QueueNext]_vars

\* the agent's sessions and its queue
SpecAgent == InitAgent /\ [][AgentNext]_vars

====
